---- MODULE Spec2Model ----
(***************************************************************************)
(* State-machine model of the stock-recommender pipeline:                  *)
(*   - screener.Scraper.FetchStock        (rate-limited fetcher)           *)
(*   - analyzer.StockDiscovery            (multi-source discovery)         *)
(*   - recommender.Engine daily picks     (batch and streaming analyzer)   *)
(* Time is counted in whole seconds.  The model keeps no absolute clock:    *)
(* it keeps the distances the code computes from it (time.Since of the     *)
(* last request, the remaining time of a running timer), each saturating   *)
(* at the largest value the code can tell apart.                           *)
(***************************************************************************)
EXTENDS Integers, Sequences, FiniteSets, TLC

(***************************************************************************)
(* Bounds of the model                                                     *)
(***************************************************************************)
\* number of goroutines that call FetchStock on the one Scraper instance
NumCallers == 2

\* length of the longest candidate list DiscoverTrendingStocks hands to the
\* analyzer
MaxDiscovered == 3
\* largest capacity of the event channel a caller passes to StreamDailyPicks
MaxChanCap == 1

(***************************************************************************)
(* Program constants                                                       *)
(***************************************************************************)
\* daily picks: maxCandidates
maxCandidates == 15
\* daily picks: number of picks kept (top 10 / stop after 10)
PickCap == 10
\* batch mode: capacity of the semaphore channel
SemCap == 1
\* NewScraper: hard minimum of the inter-request delay (seconds)
MinScrapeDelay == 3
\* FetchStock: maxRetries
maxRetries == 3
\* FetchStock: backoff unit (seconds)
BackoffUnit == 5

Callers == 1..NumCallers
\* scrape delays the configuration may ask for (seconds)
ConfiguredDelays == {2, 6}
\* no goroutine holds the mutex
NoHolder == 0
\* what the upstream may answer to one request
Responses == {"200", "429", "500", "transportErr"}

VARIABLES
    \* ---- Scraper ----
    scrapeDelay,  \* Scraper.scrapeDelay
    sinceLast,    \* time.Since(s.lastRequest), saturating at scrapeDelay
    mu,           \* Scraper.mu: holder or NoHolder
    pc,           \* per caller: position inside FetchStock
    attempt,      \* per caller: loop variable of the retry loop
    timer,        \* per caller: seconds left on the timer of the current wait
    woke,         \* per caller: which case of the select was taken
    cancelled,    \* per caller: ctx.Done() is closed
    result,       \* per caller: what FetchStock returned
    reqCount,     \* per caller: HTTP requests issued by this call
    all429,       \* per caller: every response so far was a 429
    sinceReq,     \* seconds since the latest upstream request, saturating
    gap,          \* distance of the latest request to the one before it, saturating
    sinceDone     \* seconds since the latest response of the upstream, saturating

VARIABLES
    \* ---- inputs of one daily-picks scenario ----
    nDisc,        \* length of the list DiscoverTrendingStocks returns
    outcome,      \* per candidate: what AnalyzeStock yields for it
    chanCap,      \* capacity of eventChan
    \* ---- StreamDailyPicks ----
    spc,          \* position inside StreamDailyPicks
    si,           \* loop index i (1-based)
    sCand,        \* len(candidates) after truncation
    sPicks,       \* picks
    pickRank,     \* pickRank
    sCancelled,   \* ctx.Done() of the streaming call is closed
    chanLog,      \* operations on eventChan so far: the events sent, the close
    nRecv,        \* events the consumer has received
    consuming,    \* the consumer is still receiving
    sStarted,     \* candidates in the order AnalyzeStock was called for them
    \* ---- GenerateDailyPicksWithFilter ----
    bpc,          \* position of the calling goroutine
    bCand,        \* len(candidates) after truncation
    resultsCap,   \* capacity of the results channel
    spawned,      \* workers started by the loop so far
    wpc,          \* per worker: position
    sem,          \* tokens in the semaphore channel
    wg,           \* WaitGroup counter
    results,      \* buffer of the results channel
    resultsClosed,\* number of close(results) calls
    totalAnalyzed,\* result.TotalAnalyzed
    analyzedStocks, \* analyzedStocks
    bResult,      \* the returned (result, error), or "none"
    bCancelled,   \* ctx.Done() of the batch call is closed
    bStarted      \* candidates in the order AnalyzeStock was called for them

inputVars == <<nDisc, outcome, chanCap>>
streamVars == <<spc, si, sCand, sPicks, pickRank, sCancelled, chanLog, nRecv,
                consuming, sStarted>>
batchVars == <<bpc, bCand, resultsCap, spawned, wpc, sem, wg, results,
               resultsClosed, totalAnalyzed, analyzedStocks, bResult,
               bCancelled, bStarted>>
picksVars == <<inputVars, streamVars, batchVars>>

VARIABLES
    \* ---- inputs of one DiscoverTrendingStocks scenario ----
    up,           \* per source: its upstream answers (TRUE) or fails (FALSE)
    mcLinks,      \* symbols extractSymbolFromURL finds on the MoneyControl pages
    etLinks,      \* symbols extractSymbolFromText finds on the Economic Times page
    news,         \* RelatedSymbols of the news items FetchAll returns
    \* ---- DiscoverTrendingStocks ----
    dpc,          \* position of the calling goroutine
    dSpawned,     \* sources the loop has started a goroutine for
    gpc,          \* per source: position of its goroutine
    gret,         \* per source: the (stocks, err) its function returned
    dmu,          \* mu: holder or NoSource
    dwg,          \* wg: WaitGroup counter
    allStocks,    \* allStocks
    aggregated,   \* the map aggregateStocks built
    dResult       \* what DiscoverTrendingStocks returned, or "none"

discInputVars == <<up, mcLinks, etLinks, news>>
discVars == <<discInputVars, dpc, dSpawned, gpc, gret, dmu, dwg, allStocks,
              aggregated, dResult>>

VARIABLES
    \* ---- a function applied to an argument ----
    fnArg,        \* the argument
    fnRet         \* what the calls made so far returned

pureVars == <<fnArg, fnRet>>

\* Engine.AnalyzeStock: one call
VARIABLES
    apc,            \* the position of the call
    ScrapeEnabled,  \* e.config.Screener.ScrapeEnabled
    stock,          \* the local stock: "nil", "found" or "created"
    stockData,      \* the first FetchStock has returned data
    fundamental,    \* result.Fundamental is not nil
    fetchCalls,     \* the calls of screenerScraper.FetchStock
    fetchFailed,    \* those of them that returned an error
    saveFailed,     \* the kinds of records whose save has failed
    readFailed,     \* a read of the repository has failed
    newsLeft,       \* the news items of the symbol still to be saved
    aResult         \* what the call has returned

analysisVars == <<apc, ScrapeEnabled, stock, stockData, fundamental, fetchCalls,
                  fetchFailed, saveFailed, readFailed, newsLeft, aResult>>

fetchVars == <<scrapeDelay, sinceLast, mu, pc, attempt, timer, woke,
               cancelled, result, reqCount, all429, sinceReq, gap, sinceDone>>

vars == <<fetchVars, picksVars, discVars, pureVars, analysisVars>>

(***************************************************************************)
(* screener.NewScraper                                                     *)
(***************************************************************************)
\* the configured delay taken as it is
NewScraperUnclamped(cfgDelay) == cfgDelay

\* if scrapeDelay < 3*time.Second { scrapeDelay = 3 * time.Second }
NewScraper(cfgDelay) ==
    IF cfgDelay < MinScrapeDelay THEN MinScrapeDelay ELSE cfgDelay

Min(a, b) == IF a < b THEN a ELSE b

\* DiscoverTrendingStocks: number of candidates returned at most
DiscoveryCap == 30

\* DiscoverTrendingStocks: sources, in the order their goroutines are started
Sources == <<"MoneyControl", "Economic Times", "TradingView",
             "NSE Top Gainers", "News Mentions">>
SourceNames == {Sources[k] : k \in 1..Len(Sources)}
\* no goroutine holds the mutex of DiscoverTrendingStocks
NoSource == "none"
\* a goroutine whose source function has not returned
NoReturn == [stocks |-> <<>>, err |-> "pending"]

\* no call of AnalyzeStock is modelled step by step
NoAnalysis ==
    /\ apc = "idle" /\ ScrapeEnabled = TRUE /\ stock = "nil"
    /\ stockData = FALSE /\ fundamental = FALSE /\ fetchCalls = 0
    /\ fetchFailed = 0 /\ saveFailed = {} /\ readFailed = FALSE
    /\ newsLeft = 0 /\ aResult = "none"

\* no function is applied on its own
NoPure == fnArg = "" /\ fnRet = <<>>

\* the discovery part of the state when no discovery call is modelled
NoDiscover ==
    /\ up = [s \in SourceNames |-> TRUE]
    /\ mcLinks = <<>> /\ etLinks = <<>> /\ news = <<>>
    /\ dpc = "idle" /\ dSpawned = 0
    /\ gpc = [s \in SourceNames |-> "none"]
    /\ gret = [s \in SourceNames |-> NoReturn]
    /\ dmu = NoSource /\ dwg = 0 /\ allStocks = <<>>
    /\ aggregated = <<>> /\ dResult = "none"

\* the discovered list at its full length, longer than the analyzer accepts;
\* only the streaming mode is run on it (its candidates are analyzed one
\* after the other)
LongList == DiscoveryCap

\* ids of the candidates: the position in the discovered list
Cands == 1..LongList

\* what AnalyzeStock can yield for one candidate: an error, an analysis
\* without recommendation, or a recommendation (action, confidence) together
\* with the verdict of passesFilter on the pick built from it
Outcomes ==
    { [kind |-> "err",   action |-> "",     conf |-> 0,  pass |-> FALSE],
      [kind |-> "norec", action |-> "",     conf |-> 0,  pass |-> FALSE],
      [kind |-> "rec",   action |-> "HOLD", conf |-> 60, pass |-> TRUE],
      [kind |-> "rec",   action |-> "SELL", conf |-> 90, pass |-> TRUE],
      [kind |-> "rec",   action |-> "BUY",  conf |-> 72, pass |-> TRUE],
      [kind |-> "rec",   action |-> "BUY",  conf |-> 55, pass |-> TRUE],
      [kind |-> "rec",   action |-> "BUY",  conf |-> 80, pass |-> FALSE] }

ErrOutcome == [kind |-> "err", action |-> "", conf |-> 0, pass |-> FALSE]
\* a BUY recommendation that the filter rejects
FilteredOutcome == [kind |-> "rec", action |-> "BUY", conf |-> 80, pass |-> FALSE]
\* a BUY recommendation of low confidence
LowBuyOutcome == [kind |-> "rec", action |-> "BUY", conf |-> 35, pass |-> TRUE]

\* the daily-picks part of the state when no daily-picks call is modelled
NoPicks ==
    /\ nDisc = 0
    /\ outcome = [i \in Cands |-> ErrOutcome]
    /\ chanCap = 0
    /\ spc = "done" /\ si = 0 /\ sCand = 0 /\ sPicks = <<>> /\ pickRank = 0
    /\ sCancelled = FALSE /\ chanLog = <<>> /\ nRecv = 0 /\ consuming = FALSE
    /\ sStarted = <<>>
    /\ bpc = "done" /\ bCand = 0 /\ resultsCap = 0 /\ spawned = 0
    /\ wpc = [i \in Cands |-> "none"] /\ sem = 0 /\ wg = 0 /\ results = <<>>
    /\ resultsClosed = 0 /\ totalAnalyzed = 0 /\ analyzedStocks = <<>>
    /\ bResult = "none" /\ bCancelled = FALSE /\ bStarted = <<>>

InitFetch ==
    /\ NoPicks
    /\ NoDiscover
    /\ NoPure /\ NoAnalysis
    /\ \E cfg \in ConfiguredDelays : scrapeDelay = NewScraper(cfg)
    /\ sinceLast = scrapeDelay      \* zero time.Time: time.Since saturates
    /\ mu = NoHolder
    /\ pc = [c \in Callers |-> "start"]
    /\ attempt = [c \in Callers |-> 0]
    /\ timer = [c \in Callers |-> 0]
    /\ woke = [c \in Callers |-> "none"]
    /\ cancelled = [c \in Callers |-> FALSE]
    /\ result = [c \in Callers |-> "none"]
    /\ reqCount = [c \in Callers |-> 0]
    /\ all429 = [c \in Callers |-> TRUE]
    /\ sinceReq = scrapeDelay       \* no upstream request yet
    /\ sinceDone = scrapeDelay      \* no response yet
    /\ gap = scrapeDelay

(***************************************************************************)
(* The select { case <-time.After(d): ; case <-ctx.Done(): } of FetchStock. *)
(* A goroutine parked in the select is woken by the first channel that     *)
(* becomes ready; when it enters with ctx already done and a timer that    *)
(* has not expired, only ctx.Done() is ready.                              *)
(***************************************************************************)
EnterSelect(c) == IF cancelled[c] THEN "ctx" ELSE "none"

Waiting(c) == pc[c] \in {"floorWait", "backoff"}

\* s.mu.Lock() at the top of FetchStock
Lock(c) ==
    /\ pc[c] = "start"
    /\ mu = NoHolder
    /\ mu' = c
    /\ pc' = [pc EXCEPT ![c] = "locked"]
    /\ UNCHANGED <<scrapeDelay, sinceLast, attempt, timer, woke,
                   cancelled, result, reqCount, all429, sinceReq, gap, sinceDone>>
    /\ UNCHANGED <<picksVars, discVars, pureVars, analysisVars>>

\* the mutex kept over the sleep
KeptOverSleep(c) == c

\* s.mu.Unlock() before the select of the floor delay
UnlockedForSleep(c) == NoHolder

\* elapsed := time.Since(s.lastRequest); either unlock and sleep for
\* scrapeDelay - elapsed, or stamp lastRequest and unlock
CheckElapsed(c) ==
    /\ pc[c] = "locked"
    /\ mu = c
    /\ IF sinceLast < scrapeDelay
       THEN /\ timer' = [timer EXCEPT ![c] = scrapeDelay - sinceLast]
            /\ woke' = [woke EXCEPT ![c] = EnterSelect(c)]
            /\ pc' = [pc EXCEPT ![c] = "floorWait"]
            /\ UNCHANGED sinceLast
       ELSE /\ sinceLast' = 0
            /\ pc' = [pc EXCEPT ![c] = "request"]
            /\ UNCHANGED <<timer, woke>>
    /\ mu' = IF sinceLast < scrapeDelay THEN UnlockedForSleep(c) ELSE NoHolder
    /\ UNCHANGED <<scrapeDelay, attempt, cancelled, result, reqCount,
                   all429, sinceReq, gap, sinceDone>>
    /\ UNCHANGED <<picksVars, discVars, pureVars, analysisVars>>

\* the timer of time.After expires while the goroutine is parked
TimerFire(c) ==
    /\ Waiting(c)
    /\ woke[c] = "none"
    /\ timer[c] = 0
    /\ woke' = [woke EXCEPT ![c] = "timer"]
    /\ UNCHANGED <<scrapeDelay, sinceLast, mu, pc, attempt, timer,
                   cancelled, result, reqCount, all429, sinceReq, gap, sinceDone>>
    /\ UNCHANGED <<picksVars, discVars, pureVars, analysisVars>>

\* the caller cancels its context; a goroutine parked in a select is woken
Cancel(c) ==
    /\ ~cancelled[c]
    /\ pc[c] # "done"
    /\ cancelled' = [cancelled EXCEPT ![c] = TRUE]
    /\ woke' = [woke EXCEPT ![c] =
                  IF Waiting(c) /\ woke[c] = "none" THEN "ctx" ELSE woke[c]]
    /\ UNCHANGED <<scrapeDelay, sinceLast, mu, pc, attempt, timer,
                   result, reqCount, all429, sinceReq, gap, sinceDone>>
    /\ UNCHANGED <<picksVars, discVars, pureVars, analysisVars>>

\* floor delay, case <-ctx.Done(): return nil, ctx.Err()
\* floor delay, case <-time.After(sleepTime): fall through to s.mu.Lock()
FloorSelect(w) == IF w = "ctx" THEN "done" ELSE "relock"

FloorWake(c) ==
    /\ pc[c] = "floorWait"
    /\ woke[c] # "none"
    /\ pc' = [pc EXCEPT ![c] = FloorSelect(woke[c])]
    /\ result' = [result EXCEPT ![c] =
                    IF FloorSelect(woke[c]) = "done" THEN "ctxErr" ELSE @]
    /\ woke' = [woke EXCEPT ![c] = "none"]
    /\ timer' = [timer EXCEPT ![c] = 0]
    /\ UNCHANGED <<scrapeDelay, sinceLast, mu, attempt,
                   cancelled, reqCount, all429, sinceReq, gap, sinceDone>>
    /\ UNCHANGED <<picksVars, discVars, pureVars, analysisVars>>

\* s.mu.Lock() after the sleep
Relock(c) ==
    /\ pc[c] = "relock"
    /\ mu = NoHolder
    /\ mu' = c
    /\ pc' = [pc EXCEPT ![c] = "stamp"]
    /\ UNCHANGED <<scrapeDelay, sinceLast, attempt, timer, woke,
                   cancelled, result, reqCount, all429, sinceReq, gap, sinceDone>>
    /\ UNCHANGED <<picksVars, discVars, pureVars, analysisVars>>

\* s.lastRequest = time.Now(); s.mu.Unlock()
Stamp(c) ==
    /\ pc[c] = "stamp"
    /\ mu = c
    /\ sinceLast' = 0
    /\ mu' = NoHolder
    /\ pc' = [pc EXCEPT ![c] = "request"]
    /\ UNCHANGED <<scrapeDelay, attempt, timer, woke, cancelled,
                   result, reqCount, all429, sinceReq, gap, sinceDone>>
    /\ UNCHANGED <<picksVars, discVars, pureVars, analysisVars>>

\* the retry loop with an off-by-one condition (attempt <= maxRetries)
LoopContinuesOffByOne(att) == att <= maxRetries

\* the condition of the retry loop: for attempt := 0; attempt < maxRetries
LoopContinues(att) == att < maxRetries

\* head of the retry loop: s.client.Do(req) is called; when the loop is left
\* by its condition, resp is the last (429) response and the status check
\* after the loop fails
SendRequest(c) ==
    /\ pc[c] = "request"
    /\ IF LoopContinues(attempt[c])
       THEN /\ reqCount' = [reqCount EXCEPT ![c] = @ + 1]
            /\ gap' = sinceReq
            /\ sinceReq' = 0
            /\ pc' = [pc EXCEPT ![c] = "inflight"]
            /\ UNCHANGED result
       ELSE /\ pc' = [pc EXCEPT ![c] = "done"]
            /\ result' = [result EXCEPT ![c] = "status429"]
            /\ UNCHANGED <<reqCount, gap, sinceReq>>
    /\ UNCHANGED <<scrapeDelay, sinceLast, mu, attempt, timer, woke,
                   cancelled, all429, sinceDone>>
    /\ UNCHANGED <<picksVars, discVars, pureVars, analysisVars>>

\* backoff := time.Duration(attempt+1) * 5 * time.Second
Backoff(att) == (att + 1) * BackoffUnit

\* s.client.Do(req) returns, then the status checks of FetchStock
Response(c, resp, parsed) ==
    /\ pc[c] = "inflight"
    /\ all429' = [all429 EXCEPT ![c] = @ /\ resp = "429"]
    /\ CASE resp = "transportErr" ->
              /\ pc' = [pc EXCEPT ![c] = "done"]
              /\ result' = [result EXCEPT ![c] = "fetchErr"]
              /\ UNCHANGED <<timer, woke>>
         [] resp = "429" ->
              /\ pc' = [pc EXCEPT ![c] = "backoff"]
              /\ timer' = [timer EXCEPT ![c] = Backoff(attempt[c])]
              /\ woke' = [woke EXCEPT ![c] = EnterSelect(c)]
              /\ UNCHANGED result
         [] resp = "200" ->
              /\ pc' = [pc EXCEPT ![c] = "done"]
              /\ result' = [result EXCEPT ![c] = IF parsed THEN "data" ELSE "parseErr"]
              /\ UNCHANGED <<timer, woke>>
         [] OTHER ->
              /\ pc' = [pc EXCEPT ![c] = "done"]
              /\ result' = [result EXCEPT ![c] = "status500"]
              /\ UNCHANGED <<timer, woke>>
    /\ sinceDone' = 0
    /\ UNCHANGED <<scrapeDelay, sinceLast, mu, attempt, cancelled,
                   reqCount, sinceReq, gap>>
    /\ UNCHANGED <<picksVars, discVars, pureVars, analysisVars>>

\* a backoff that sleeps without watching the context (time.Sleep(backoff))
BackoffSleepOnly(w) == "request"

\* backoff, case <-time.After(backoff): continue
\* backoff, case <-ctx.Done(): return nil, ctx.Err()
BackoffSelect(w) == IF w = "ctx" THEN "done" ELSE "request"

BackoffWake(c) ==
    /\ pc[c] = "backoff"
    /\ woke[c] # "none"
    /\ pc' = [pc EXCEPT ![c] = BackoffSelect(woke[c])]
    /\ IF BackoffSelect(woke[c]) = "done"
       THEN /\ result' = [result EXCEPT ![c] = "ctxErr"]
            /\ UNCHANGED attempt
       ELSE /\ attempt' = [attempt EXCEPT ![c] = @ + 1]
            /\ UNCHANGED result
    /\ woke' = [woke EXCEPT ![c] = "none"]
    /\ timer' = [timer EXCEPT ![c] = 0]
    /\ UNCHANGED <<scrapeDelay, sinceLast, mu, cancelled,
                   reqCount, all429, sinceReq, gap, sinceDone>>
    /\ UNCHANGED <<picksVars, discVars, pureVars, analysisVars>>

\* a goroutine that can take its next step without waiting for the clock,
\* the upstream or its caller: such steps take no time at the scale of seconds
Runnable(c) ==
    \/ pc[c] \in {"locked", "relock", "stamp", "request"}
    \/ Waiting(c) /\ (woke[c] # "none" \/ timer[c] = 0)

\* one second passes: running timers count down, distances grow
Tick ==
    /\ \E c \in Callers : pc[c] # "done"
    /\ \A c \in Callers : ~Runnable(c)
    /\ sinceLast' = Min(sinceLast + 1, scrapeDelay)
    /\ sinceReq' = Min(sinceReq + 1, scrapeDelay)
    /\ sinceDone' = Min(sinceDone + 1, scrapeDelay)
    /\ timer' = [c \in Callers |->
                   IF Waiting(c) /\ woke[c] = "none" /\ timer[c] > 0
                   THEN timer[c] - 1 ELSE timer[c]]
    /\ UNCHANGED <<scrapeDelay, mu, pc, attempt, woke,
                   cancelled, result, reqCount, all429, gap>>
    /\ UNCHANGED <<picksVars, discVars, pureVars, analysisVars>>

NextFetch ==
    \/ \E c \in Callers : Lock(c)
    \/ \E c \in Callers : CheckElapsed(c)
    \/ \E c \in Callers : TimerFire(c)
    \/ \E c \in Callers : Cancel(c)
    \/ \E c \in Callers : FloorWake(c)
    \/ \E c \in Callers : Relock(c)
    \/ \E c \in Callers : Stamp(c)
    \/ \E c \in Callers : SendRequest(c)
    \/ \E c \in Callers : \E resp \in Responses : \E parsed \in BOOLEAN :
          Response(c, resp, parsed)
    \/ \E c \in Callers : BackoffWake(c)
    \/ Tick

SpecFetch == InitFetch /\ [][NextFetch]_vars

(***************************************************************************)
(* Properties of the rate-limited fetcher                                  *)
(***************************************************************************)

\* C1: no two upstream requests of one Scraper are issued less than
\* scrapeDelay apart, whatever the interleaving of the callers and their
\* retries (gap saturates at scrapeDelay).
C1_RequestsRespectFloor == gap >= scrapeDelay

\* C2: one FetchStock call never issues more than 3 requests, and a call
\* whose every request was answered 429 never returns data: it ends with an
\* error.
C2_AtMostThreeAttempts ==
    \A c \in Callers :
        /\ reqCount[c] <= 3
        /\ (pc[c] = "done" /\ all429[c] /\ reqCount[c] >= 1)
              => result[c] \in {"status429", "ctxErr"}

\* a call that was answered 429 three times and has returned its error
C2_Witness ==
    \E c \in Callers :
        pc[c] = "done" /\ all429[c] /\ reqCount[c] = 3 /\ result[c] = "status429"

\* C3: a call whose context is cancelled while it waits (floor delay or
\* backoff) and whose timer has not fired leaves the wait only by returning
\* the cancellation error, and issues no further request.
C3_CancelledWaitReturns ==
    [][\A c \in Callers :
         (Waiting(c) /\ cancelled[c] /\ woke[c] # "timer")
            => /\ reqCount'[c] = reqCount[c]
               /\ pc'[c] \in {pc[c], "done"}
               /\ (pc'[c] = "done" => result'[c] = "ctxErr")]_vars

\* one call was cancelled in its floor delay (before any request) and
\* another in a backoff (after a 429), and both returned the cancellation
C3_Witness ==
    \E c, d \in Callers :
        /\ pc[c] = "done" /\ result[c] = "ctxErr" /\ reqCount[c] = 0
        /\ pc[d] = "done" /\ result[d] = "ctxErr" /\ reqCount[d] >= 1

(***************************************************************************)
(* Daily picks: what both modes share                                      *)
(***************************************************************************)

\* DiscoverTrendingStocks as the analyzer sees it: the list of candidates
\* (here their positions 1..n) and an error that is always nil
DiscoveredList(n) == [k \in 1..n |-> k]
DiscoverErr == FALSE

\* the list left as discovered
NoTruncate(cands) == cands

\* if len(candidates) > maxCandidates { candidates = candidates[:maxCandidates] }
Truncate(cands) ==
    IF Len(cands) > maxCandidates THEN SubSeq(cands, 1, maxCandidates) ELSE cands

\* AnalyzeStock(ctx, symbol): the outcome of the scenario; with a cancelled
\* context its collaborators may fail instead
AnalyzeStock(i, ctxDone) ==
    IF ctxDone THEN {outcome[i], ErrOutcome} ELSE {outcome[i]}

\* the checks without the one of the action
AcceptedAnyAction(o) == o.kind = "rec" /\ o.pass

\* the checks between AnalyzeStock and the acceptance of a pick:
\* err != nil, no recommendation, action != BUY, filter
Accepted(o) == o.kind = "rec" /\ o.action = "BUY" /\ o.pass

\* the DailyPick built from an accepted outcome (rank 0: not ranked yet)
MakePick(i, o, rank) == [sym |-> i, action |-> o.action, conf |-> o.conf, rank |-> rank]

RECURSIVE SumConf(_)
SumConf(picks) ==
    IF picks = <<>> THEN 0 ELSE Head(picks).conf + SumConf(Tail(picks))

\* the action compared with a label no pick carries
BuyCountOtherLabel(picks) == Cardinality({k \in 1..Len(picks) : picks[k].action = "Buy"})

\* if p.Action == "BUY" { buyCount++ }
BuyCount(picks) == Cardinality({k \in 1..Len(picks) : picks[k].action = "BUY"})

\* the thresholds taken on the inclusive side
determineMarketSentimentInclusive(picks) ==
    IF Len(picks) = 0 THEN "NEUTRAL"
    ELSE IF SumConf(picks) >= 60 * Len(picks) /\ 2 * BuyCount(picks) >= Len(picks)
         THEN "BULLISH"
    ELSE IF SumConf(picks) <= 40 * Len(picks) \/ 10 * BuyCount(picks) <= 3 * Len(picks)
         THEN "BEARISH"
    ELSE "NEUTRAL"

\* Engine.determineMarketSentiment: avgConfidence > 60 && buyRatio > 0.5 is
\* BULLISH, avgConfidence < 40 || buyRatio < 0.3 is BEARISH (in integers:
\* both sides multiplied by len(picks), resp. 2 and 10 len(picks))
determineMarketSentiment(picks) ==
    IF Len(picks) = 0 THEN "NEUTRAL"
    ELSE IF SumConf(picks) > 60 * Len(picks) /\ 2 * BuyCount(picks) > Len(picks)
         THEN "BULLISH"
    ELSE IF SumConf(picks) < 40 * Len(picks) \/ 10 * BuyCount(picks) < 3 * Len(picks)
         THEN "BEARISH"
    ELSE "NEUTRAL"

(***************************************************************************)
(* Engine.StreamDailyPicks                                                 *)
(***************************************************************************)

Event(type, sym, n, info) == [type |-> type, sym |-> sym, n |-> n, info |-> info]

\* the events in the log (the close, when logged, is its last entry)
IsClose(e) == e.type = "close"
NumSent == Cardinality({k \in 1..Len(chanLog) : ~IsClose(chanLog[k])})

\* eventChan <- e can complete: a receiver takes it (unbuffered channel), or
\* the buffer has room
CanSend ==
    IF chanCap = 0 THEN consuming ELSE NumSent - nRecv < chanCap

\* the channel after eventChan <- e
AfterSend(e) ==
    /\ chanLog' = Append(chanLog, e)
    /\ nRecv' = IF chanCap = 0 THEN nRecv + 1 ELSE nRecv

\* a return that leaves the channel open
NoDeferredClose(log) == log

\* defer close(eventChan)
DeferredClose(log) == Append(log, Event("close", 0, 0, ""))

\* eventChan <- progress "Discovering trending stocks..."
S_SendDiscovering ==
    /\ spc = "sendDiscovering"
    /\ CanSend
    /\ AfterSend(Event("progress", 0, 0, "discovering"))
    /\ spc' = "discover"
    /\ UNCHANGED <<si, sCand, sPicks, pickRank, sCancelled, consuming, sStarted>>
    /\ UNCHANGED <<inputVars, batchVars, fetchVars, discVars, pureVars, analysisVars>>

\* candidates, err := discovery.DiscoverTrendingStocks(ctx); the error
\* branch; the truncation to maxCandidates
S_Discover ==
    /\ spc = "discover"
    /\ IF DiscoverErr
       THEN /\ spc' = "sendError"
            /\ UNCHANGED sCand
       ELSE /\ sCand' = Len(Truncate(DiscoveredList(nDisc)))
            /\ spc' = "sendFound"
    /\ UNCHANGED <<si, sPicks, pickRank, sCancelled, chanLog, nRecv, consuming,
                   sStarted>>
    /\ UNCHANGED <<inputVars, batchVars, fetchVars, discVars, pureVars, analysisVars>>

\* eventChan <- progress "Found %d candidates, starting analysis..."
S_SendFound ==
    /\ spc = "sendFound"
    /\ CanSend
    /\ AfterSend(Event("progress", 0, sCand, "found"))
    /\ spc' = "loopHead"
    /\ si' = 1
    /\ UNCHANGED <<sCand, sPicks, pickRank, sCancelled, consuming, sStarted>>
    /\ UNCHANGED <<inputVars, batchVars, fetchVars, discVars, pureVars, analysisVars>>

\* for i, candidate := range candidates { select { case <-ctx.Done(): return
S_LoopHead ==
    /\ spc = "loopHead"
    /\ spc' = IF si > sCand THEN "sendComplete"
              ELSE IF sCancelled THEN "return"
              ELSE "sendProgress"
    /\ UNCHANGED <<si, sCand, sPicks, pickRank, sCancelled, chanLog, nRecv,
                   consuming, sStarted>>
    /\ UNCHANGED <<inputVars, batchVars, fetchVars, discVars, pureVars, analysisVars>>

\* eventChan <- progress "Analyzing ..." completes and e.AnalyzeStock is called
S_SendProgress ==
    /\ spc = "sendProgress"
    /\ CanSend
    /\ AfterSend(Event("progress", si, sCand, "analyzing"))
    /\ spc' = "analyzing"
    /\ sStarted' = Append(sStarted, si)
    /\ UNCHANGED <<si, sCand, sPicks, pickRank, sCancelled, consuming>>
    /\ UNCHANGED <<inputVars, batchVars, fetchVars, discVars, pureVars, analysisVars>>

\* a skip that leaves the loop (break instead of continue)
BreakOnSkip(i, n) == n + 1

\* continue: the loop goes on with the next candidate
ContinueOnSkip(i, n) == i + 1

\* e.AnalyzeStock returns: continue on error / no recommendation / not BUY /
\* filter (pickRank is incremented and reverted), else append the pick
S_AnalyzeReturn ==
    /\ spc = "analyzing"
    /\ \E o \in AnalyzeStock(si, sCancelled) :
         IF Accepted(o)
         THEN /\ pickRank' = pickRank + 1
              /\ sPicks' = Append(sPicks, MakePick(si, o, pickRank + 1))
              /\ spc' = "sendPick"
              /\ UNCHANGED si
         ELSE /\ si' = ContinueOnSkip(si, sCand)
              /\ spc' = "loopHead"
              /\ UNCHANGED <<sPicks, pickRank>>
    /\ UNCHANGED <<sCand, sCancelled, chanLog, nRecv, consuming, sStarted>>
    /\ UNCHANGED <<inputVars, batchVars, fetchVars, discVars, pureVars, analysisVars>>

\* the loop goes on whatever the number of picks
NeverStop(picks) == FALSE

\* if len(picks) >= 10 { break }
StopAfter(picks) == Len(picks) >= PickCap

\* eventChan <- pick; then the break after 10 picks
S_SendPick ==
    /\ spc = "sendPick"
    /\ CanSend
    /\ AfterSend(Event("pick", si, sPicks[Len(sPicks)].rank, ""))
    /\ IF StopAfter(sPicks)
       THEN spc' = "sendComplete" /\ UNCHANGED si
       ELSE spc' = "loopHead" /\ si' = si + 1
    /\ UNCHANGED <<sCand, sPicks, pickRank, sCancelled, consuming, sStarted>>
    /\ UNCHANGED <<inputVars, batchVars, fetchVars, discVars, pureVars, analysisVars>>

\* eventChan <- complete (TotalPicks, MarketSentiment)
S_SendComplete ==
    /\ spc = "sendComplete"
    /\ CanSend
    /\ AfterSend(Event("complete", 0, Len(sPicks), determineMarketSentiment(sPicks)))
    /\ spc' = "return"
    /\ UNCHANGED <<si, sCand, sPicks, pickRank, sCancelled, consuming, sStarted>>
    /\ UNCHANGED <<inputVars, batchVars, fetchVars, discVars, pureVars, analysisVars>>

\* eventChan <- error "Failed to discover stocks"
S_SendError ==
    /\ spc = "sendError"
    /\ CanSend
    /\ AfterSend(Event("error", 0, 0, "discover"))
    /\ spc' = "return"
    /\ UNCHANGED <<si, sCand, sPicks, pickRank, sCancelled, consuming, sStarted>>
    /\ UNCHANGED <<inputVars, batchVars, fetchVars, discVars, pureVars, analysisVars>>

\* the function returns: the deferred close(eventChan) runs
S_Return ==
    /\ spc = "return"
    /\ chanLog' = DeferredClose(chanLog)
    /\ spc' = "done"
    /\ UNCHANGED <<si, sCand, sPicks, pickRank, sCancelled, nRecv, consuming,
                   sStarted>>
    /\ UNCHANGED <<inputVars, batchVars, fetchVars, discVars, pureVars, analysisVars>>

\* the consumer takes the next buffered event
S_Receive ==
    /\ consuming
    /\ nRecv < NumSent
    /\ nRecv' = nRecv + 1
    /\ UNCHANGED <<spc, si, sCand, sPicks, pickRank, sCancelled, chanLog,
                   consuming, sStarted>>
    /\ UNCHANGED <<inputVars, batchVars, fetchVars, discVars, pureVars, analysisVars>>

\* the consumer stops receiving (its client went away)
S_StopConsuming ==
    /\ consuming
    /\ spc # "done"
    /\ consuming' = FALSE
    /\ UNCHANGED <<spc, si, sCand, sPicks, pickRank, sCancelled, chanLog, nRecv,
                   sStarted>>
    /\ UNCHANGED <<inputVars, batchVars, fetchVars, discVars, pureVars, analysisVars>>

\* the context of the streaming call is cancelled
S_Cancel ==
    /\ ~sCancelled
    /\ spc # "done"
    /\ sCancelled' = TRUE
    /\ UNCHANGED <<spc, si, sCand, sPicks, pickRank, chanLog, nRecv, consuming,
                   sStarted>>
    /\ UNCHANGED <<inputVars, batchVars, fetchVars, discVars, pureVars, analysisVars>>

\* the fetcher part of the state when no FetchStock call is modelled
NoFetch ==
    /\ scrapeDelay = MinScrapeDelay /\ sinceLast = MinScrapeDelay
    /\ mu = NoHolder
    /\ pc = [c \in Callers |-> "done"]
    /\ attempt = [c \in Callers |-> 0]
    /\ timer = [c \in Callers |-> 0]
    /\ woke = [c \in Callers |-> "none"]
    /\ cancelled = [c \in Callers |-> FALSE]
    /\ result = [c \in Callers |-> "none"]
    /\ reqCount = [c \in Callers |-> 0]
    /\ all429 = [c \in Callers |-> TRUE]
    /\ sinceReq = MinScrapeDelay /\ gap = MinScrapeDelay
    /\ sinceDone = MinScrapeDelay

\* a scenario: the discovered list, the outcome of each candidate's
\* analysis, the channel the caller passes
BuyOutcome == [kind |-> "rec", action |-> "BUY", conf |-> 72, pass |-> TRUE]

InitInputs ==
    /\ \/ /\ nDisc \in 0..MaxDiscovered
          /\ \E f \in [1..nDisc -> Outcomes] :
                outcome = [i \in Cands |-> IF i <= nDisc THEN f[i] ELSE ErrOutcome]
       \/ /\ nDisc = LongList
          /\ \E first \in {ErrOutcome, BuyOutcome, FilteredOutcome} :
                outcome = [i \in Cands |-> IF i = 1 THEN first ELSE BuyOutcome]
       \/ /\ nDisc = 2
          /\ \E second \in {LowBuyOutcome, BuyOutcome} :
                outcome = [i \in Cands |-> IF i = 1 THEN LowBuyOutcome
                                           ELSE IF i = 2 THEN second ELSE ErrOutcome]
    /\ chanCap \in 0..MaxChanCap

InitStream ==
    /\ spc = "sendDiscovering" /\ si = 0 /\ sCand = 0 /\ sPicks = <<>>
    /\ pickRank = 0 /\ sCancelled \in BOOLEAN /\ chanLog = <<>> /\ nRecv = 0
    /\ consuming = TRUE /\ sStarted = <<>>

InitBatchIdle ==
    /\ bpc = "idle" /\ bCand = 0 /\ resultsCap = 0 /\ spawned = 0
    /\ wpc = [i \in Cands |-> "none"] /\ sem = 0 /\ wg = 0 /\ results = <<>>
    /\ resultsClosed = 0 /\ totalAnalyzed = 0 /\ analyzedStocks = <<>>
    /\ bResult = "none" /\ bCancelled = FALSE /\ bStarted = <<>>

NextStream ==
    \/ S_SendDiscovering
    \/ S_Discover
    \/ S_SendFound
    \/ S_LoopHead
    \/ S_SendProgress
    \/ S_AnalyzeReturn
    \/ S_SendPick
    \/ S_SendComplete
    \/ S_Return
    \/ S_Receive
    \/ S_StopConsuming
    \/ S_Cancel

(***************************************************************************)
(* Engine.GenerateDailyPicksWithFilter                                     *)
(***************************************************************************)

\* the streaming call has run to its end without cancellation and its
\* consumer has drained the channel
StreamRunComplete ==
    /\ spc = "done" /\ ~sCancelled /\ consuming /\ nRecv = NumSent

\* the batch request arrives (on the same scenario, for the lists of up to
\* MaxDiscovered candidates, and for longer ones with a context that is
\* cancelled already); DiscoverTrendingStocks; the early return for an
\* empty list; make(chan analysisResult, len(candidates)); truncation
B_Discover ==
    /\ bpc = "idle"
    /\ StreamRunComplete
    /\ nDisc <= MaxDiscovered \/ bCancelled
    /\ IF DiscoverErr
       THEN /\ bResult' = [picks |-> <<>>, err |-> "discover"]
            /\ bpc' = "done"
            /\ UNCHANGED <<bCand, resultsCap>>
       ELSE IF Len(DiscoveredList(nDisc)) = 0
       THEN /\ bResult' = [picks |-> <<>>, err |-> "nil", sentiment |-> "",
                           totalAnalyzed |-> 0]
            /\ bpc' = "done"
            /\ UNCHANGED <<bCand, resultsCap>>
       ELSE /\ resultsCap' = Len(DiscoveredList(nDisc))
            /\ bCand' = Len(Truncate(DiscoveredList(nDisc)))
            /\ bpc' = "spawn"
            /\ UNCHANGED bResult
    /\ UNCHANGED <<spawned, wpc, sem, wg, results, resultsClosed, totalAnalyzed,
                   analyzedStocks, bCancelled, bStarted>>
    /\ UNCHANGED <<inputVars, streamVars, fetchVars, discVars, pureVars, analysisVars>>

\* for _, candidate := range candidates { wg.Add(1); go func(c) {...}(candidate) }
\* after the last one: go func() { wg.Wait(); close(results) }()
B_Spawn ==
    /\ bpc = "spawn"
    /\ spawned < bCand
    /\ wg' = wg + 1
    /\ wpc' = [wpc EXCEPT ![spawned + 1] = "acquire"]
    /\ spawned' = spawned + 1
    /\ bpc' = IF spawned + 1 = bCand THEN "collect" ELSE "spawn"
    /\ UNCHANGED <<bCand, resultsCap, sem, results, resultsClosed, totalAnalyzed,
                   analyzedStocks, bResult, bCancelled, bStarted>>
    /\ UNCHANGED <<inputVars, streamVars, fetchVars, discVars, pureVars, analysisVars>>

\* a semaphore with room for two
SlotFreeOfTwo(n) == n < SemCap + 1

\* sem <- struct{}{} can complete
SlotFree(n) == n < SemCap

\* worker: sem <- struct{}{}  (Acquire)
W_Acquire(i) ==
    /\ wpc[i] = "acquire"
    /\ SlotFree(sem)
    /\ sem' = sem + 1
    /\ wpc' = [wpc EXCEPT ![i] = "holding"]
    /\ UNCHANGED <<bpc, bCand, resultsCap, spawned, wg, results, resultsClosed,
                   totalAnalyzed, analyzedStocks, bResult, bCancelled, bStarted>>
    /\ UNCHANGED <<inputVars, streamVars, fetchVars, discVars, pureVars, analysisVars>>

\* a return that leaves the token in the semaphore
SlotKept(n) == n

\* defer func() { <-sem }()
SlotReleased(n) == n - 1

\* worker: select { case <-ctx.Done(): return; default: } and, when it goes
\* on, the call of e.AnalyzeStock; a return runs the deferred <-sem and
\* wg.Done()
W_CheckStart(i) ==
    /\ wpc[i] = "holding"
    /\ IF bCancelled
       THEN /\ wpc' = [wpc EXCEPT ![i] = "done"]
            /\ sem' = SlotReleased(sem)
            /\ wg' = wg - 1
            /\ UNCHANGED bStarted
       ELSE /\ wpc' = [wpc EXCEPT ![i] = "analyzing"]
            /\ bStarted' = Append(bStarted, i)
            /\ UNCHANGED <<sem, wg>>
    /\ UNCHANGED <<bpc, bCand, resultsCap, spawned, results, resultsClosed,
                   totalAnalyzed, analyzedStocks, bResult, bCancelled>>
    /\ UNCHANGED <<inputVars, streamVars, fetchVars, discVars, pureVars, analysisVars>>

\* worker: e.AnalyzeStock returns; results <- analysisResult{...}; the
\* deferred <-sem and wg.Done()
W_Finish(i) ==
    /\ wpc[i] = "analyzing"
    /\ Len(results) < resultsCap
    /\ \E o \in AnalyzeStock(i, bCancelled) :
         results' = Append(results, [sym |-> i, out |-> o])
    /\ sem' = SlotReleased(sem)
    /\ wg' = wg - 1
    /\ wpc' = [wpc EXCEPT ![i] = "done"]
    /\ UNCHANGED <<bpc, bCand, resultsCap, spawned, resultsClosed,
                   totalAnalyzed, analyzedStocks, bResult, bCancelled, bStarted>>
    /\ UNCHANGED <<inputVars, streamVars, fetchVars, discVars, pureVars, analysisVars>>

\* closer goroutine: wg.Wait() returns; close(results)
B_Close ==
    /\ bpc = "collect"
    /\ resultsClosed = 0
    /\ wg = 0
    /\ resultsClosed' = 1
    /\ UNCHANGED <<bpc, bCand, resultsCap, spawned, wpc, sem, wg, results,
                   totalAnalyzed, analyzedStocks, bResult, bCancelled, bStarted>>
    /\ UNCHANGED <<inputVars, streamVars, fetchVars, discVars, pureVars, analysisVars>>

\* the count raised for the accepted results only
CountAccepted(total, o) == IF Accepted(o) THEN total + 1 ELSE total

\* result.TotalAnalyzed++ at the head of the loop body, before any continue
CountResult(total, o) == total + 1

\* for r := range results { result.TotalAnalyzed++; ... append the pick }
B_Collect ==
    /\ bpc = "collect"
    /\ results # <<>>
    /\ results' = Tail(results)
    /\ totalAnalyzed' = CountResult(totalAnalyzed, Head(results).out)
    /\ analyzedStocks' =
         IF Accepted(Head(results).out)
         THEN Append(analyzedStocks, MakePick(Head(results).sym, Head(results).out, 0))
         ELSE analyzedStocks
    /\ UNCHANGED <<bpc, bCand, resultsCap, spawned, wpc, sem, wg, resultsClosed,
                   bResult, bCancelled, bStarted>>
    /\ UNCHANGED <<inputVars, streamVars, fetchVars, discVars, pureVars, analysisVars>>

\* sort.Slice(analyzedStocks, ConfidenceScore descending): some order of the
\* same picks with non-increasing confidence (the sort is not stable)
IsSortedByConfidence(s) == \A k \in 1..(Len(s) - 1) : s[k].conf >= s[k + 1].conf

\* the picks left in the order of their completion
CompletionOrder(s) == {s}

\* the orders of the picks at the positions idx that sort.Slice may produce
RECURSIVE SortedOrders(_, _)
SortedOrders(s, idx) ==
    IF idx = {} THEN {<<>>}
    ELSE UNION { { <<s[i]>> \o t : t \in SortedOrders(s, idx \ {i}) } :
                 i \in {j \in idx : \A k \in idx : s[j].conf >= s[k].conf} }

SortedByConfidence(s) == SortedOrders(s, 1..Len(s))

\* topPicks := analyzedStocks; if len(topPicks) > 10 { topPicks = topPicks[:10] }
TopPicks(s) == IF Len(s) > PickCap THEN SubSeq(s, 1, PickCap) ELSE s

\* for i := range topPicks { topPicks[i].Rank = i + 1 }
AssignRanks(s) == [k \in 1..Len(s) |-> [s[k] EXCEPT !.rank = k]]

\* the sentiment taken of the picks returned
SentimentOfTop(sorted) == TopPicks(sorted)

\* e.determineMarketSentiment(analyzedStocks): the whole sorted slice
SentimentInput(sorted) == sorted

\* the range loop ends on the closed, drained channel; sort, top 10, ranks,
\* market sentiment over analyzedStocks; return result, nil
B_Finish ==
    /\ bpc = "collect"
    /\ results = <<>>
    /\ resultsClosed > 0
    /\ \E sorted \in SortedByConfidence(analyzedStocks) :
         bResult' = [picks |-> AssignRanks(TopPicks(sorted)), err |-> "nil",
                     sentiment |-> determineMarketSentiment(SentimentInput(sorted)),
                     totalAnalyzed |-> totalAnalyzed]
    /\ bpc' = "done"
    /\ UNCHANGED <<bCand, resultsCap, spawned, wpc, sem, wg, results,
                   resultsClosed, totalAnalyzed, analyzedStocks, bCancelled,
                   bStarted>>
    /\ UNCHANGED <<inputVars, streamVars, fetchVars, discVars, pureVars, analysisVars>>

\* the context of the batch call is cancelled
B_Cancel ==
    /\ ~bCancelled
    /\ bpc \notin {"idle", "done"}
    /\ bCancelled' = TRUE
    /\ UNCHANGED <<bpc, bCand, resultsCap, spawned, wpc, sem, wg, results,
                   resultsClosed, totalAnalyzed, analyzedStocks, bResult,
                   bStarted>>
    /\ UNCHANGED <<inputVars, streamVars, fetchVars, discVars, pureVars, analysisVars>>

NextBatch ==
    \/ B_Discover
    \/ B_Spawn
    \/ \E i \in Cands : W_Acquire(i)
    \/ \E i \in Cands : W_CheckStart(i)
    \/ \E i \in Cands : W_Finish(i)
    \/ B_Close
    \/ B_Collect
    \/ B_Finish
    \/ B_Cancel

(***************************************************************************)
(* A streaming request followed by a batch request on the same scenario    *)
(***************************************************************************)
Init == NoFetch /\ NoDiscover /\ NoPure /\ NoAnalysis /\ InitInputs /\ InitStream /\ InitBatchIdle

Next == NextStream \/ NextBatch

Spec == Init /\ [][Next]_vars

\* the streaming call alone
SpecStream == Init /\ [][NextStream]_vars

\* the streaming call alone, its goroutine scheduled fairly; nothing is
\* assumed of the consumer or of the cancellation
SpecStreamFair ==
    /\ Init
    /\ [][NextStream]_vars
    /\ WF_vars(S_SendDiscovering) /\ WF_vars(S_Discover) /\ WF_vars(S_SendFound)
    /\ WF_vars(S_LoopHead) /\ WF_vars(S_SendProgress) /\ WF_vars(S_AnalyzeReturn)
    /\ WF_vars(S_SendPick) /\ WF_vars(S_SendComplete) /\ WF_vars(S_Return)

(***************************************************************************)
(* Properties of the bounded concurrent analyzer                           *)
(***************************************************************************)
InFlight == {i \in Cands : wpc[i] = "analyzing"}
SlotHolders == {i \in Cands : wpc[i] \in {"holding", "analyzing"}}

\* C4: in a batch run at most one AnalyzeStock call is in flight, and every
\* worker that is analyzing (or about to) holds a slot of the semaphore.
C4_CeilingRespected ==
    /\ Cardinality(InFlight) <= 1
    /\ Cardinality(SlotHolders) = sem

\* one analysis is in flight while another worker waits for the slot
C4_Witness ==
    \E i, j \in Cands : wpc[i] = "analyzing" /\ wpc[j] = "acquire"

\* C5: once the context is cancelled, neither mode starts AnalyzeStock for a
\* further candidate.
C5_NoStartAfterCancel ==
    [][/\ sCancelled => sStarted' = sStarted
       /\ bCancelled => bStarted' = bStarted]_vars

Closes == {k \in 1..Len(chanLog) : IsClose(chanLog[k])}
Completes == {k \in 1..Len(chanLog) : chanLog[k].type = "complete"}

\* C6: eventChan is closed at most once, exactly once when StreamDailyPicks
\* has returned, nothing is sent after the close, and a Complete event is
\* sent at most once and is the last event before the close.
C6_SinkClosedOnce ==
    /\ Cardinality(Closes) <= 1
    /\ \A k \in Closes : k = Len(chanLog)
    /\ (spc = "done") <=> (Closes # {})
    /\ Cardinality(Completes) <= 1
    /\ \A k \in Completes :
          k = Len(chanLog) \/ (k = Len(chanLog) - 1 /\ IsClose(chanLog[Len(chanLog)]))

\* a run that emitted a pick and its Complete event and closed the channel
C6_Witness ==
    /\ spc = "done"
    /\ Len(chanLog) >= 3
    /\ chanLog[Len(chanLog) - 1].type = "complete"
    /\ chanLog[Len(chanLog) - 2].type = "pick"

\* C7: once the context is cancelled, StreamDailyPicks eventually closes the
\* sink, whatever the consumer does.
C7_CancelLeadsToClose == sCancelled ~> (spc = "done")

\* C8: for the same candidates and outcomes, without cancellation, batch mode
\* starts the analyses of the same candidates in the same order as streaming
\* mode.
C8_SharedSchedulingPolicy ==
    (bpc = "done" /\ ~bCancelled /\ StreamRunComplete) => bStarted = sStarted

\* the candidates whose analysis yields an accepted pick, among the first n
AcceptedCands(n) == {i \in 1..n : Accepted(outcome[i])}

PickEvents == SelectSeq(chanLog, LAMBDA e : e.type = "pick")
StreamPickSyms == {PickEvents[k].sym : k \in 1..Len(PickEvents)}
BatchPickSyms == {bResult.picks[k].sym : k \in 1..Len(bResult.picks)}
Scheduled == Min(nDisc, maxCandidates)

\* C9 (as claimed): with failing candidates skipped, a batch run returns a nil
\* error and a streaming run reaches Complete, each with the picks of all
\* the remaining candidates.
C9_AllRemainingPicks ==
    /\ StreamRunComplete =>
          /\ Completes # {}
          /\ StreamPickSyms = AcceptedCands(Scheduled)
    /\ (bpc = "done" /\ ~bCancelled) =>
          /\ bResult.err = "nil"
          /\ BatchPickSyms = AcceptedCands(Scheduled)

\* C9 (amended): failing candidates are skipped and the run goes on; a
\* streaming run reaches Complete having emitted, in list order, the picks
\* of the accepted candidates up to the tenth, and a batch run returns a nil
\* error and at most 10 picks, those of all the accepted candidates when
\* there are no more than 10 of them.
C9_SkippedNotAborted ==
    /\ StreamRunComplete =>
          /\ Completes # {}
          /\ \A k \in 1..(Len(PickEvents) - 1) : PickEvents[k].sym < PickEvents[k + 1].sym
          /\ StreamPickSyms \subseteq AcceptedCands(Scheduled)
          /\ Len(PickEvents) = Min(Cardinality(AcceptedCands(Scheduled)), PickCap)
          /\ \A i \in AcceptedCands(Scheduled) \ StreamPickSyms :
                \A j \in StreamPickSyms : j < i
    /\ (bpc = "done" /\ ~bCancelled) =>
          /\ bResult.err = "nil"
          /\ Len(bResult.picks) <= PickCap
          /\ Cardinality(AcceptedCands(Scheduled)) <= PickCap
                => BatchPickSyms = AcceptedCands(Scheduled)

\* both runs are over, a candidate failed, and a later candidate's pick is
\* in the stream and in the batch result
C9_Witness ==
    /\ StreamRunComplete
    /\ bpc = "done" /\ ~bCancelled
    /\ \E i, j \in 1..Scheduled :
          /\ i < j
          /\ outcome[i].kind = "err"
          /\ j \in StreamPickSyms
          /\ j \in BatchPickSyms

(***************************************************************************)
(* analyzer.StockDiscovery.DiscoverTrendingStocks                          *)
(***************************************************************************)
\* most symbols one scraped page (or one news item) yields
MaxLinks == 1

\* symbols a scraped page can yield: one of the curated lists, one outside
ScrapedSymbols == {"TCS", "ZOMATO"}

Stock(symbol, name, source, mentions) ==
    [Symbol |-> symbol, Name |-> name, Source |-> source, Mentions |-> mentions]

\* scrapeTradingViewIdeas: activeStocks
activeStocks ==
    << [symbol |-> "RELIANCE",   name |-> "Reliance Industries"],
       [symbol |-> "TCS",        name |-> "Tata Consultancy Services"],
       [symbol |-> "HDFCBANK",   name |-> "HDFC Bank"],
       [symbol |-> "INFY",       name |-> "Infosys"],
       [symbol |-> "ICICIBANK",  name |-> "ICICI Bank"],
       [symbol |-> "HINDUNILVR", name |-> "Hindustan Unilever"],
       [symbol |-> "SBIN",       name |-> "State Bank of India"],
       [symbol |-> "BHARTIARTL", name |-> "Bharti Airtel"],
       [symbol |-> "KOTAKBANK",  name |-> "Kotak Mahindra Bank"],
       [symbol |-> "ITC",        name |-> "ITC Limited"],
       [symbol |-> "LT",         name |-> "Larsen & Toubro"],
       [symbol |-> "AXISBANK",   name |-> "Axis Bank"],
       [symbol |-> "BAJFINANCE", name |-> "Bajaj Finance"],
       [symbol |-> "MARUTI",     name |-> "Maruti Suzuki"],
       [symbol |-> "TATAMOTORS", name |-> "Tata Motors"],
       [symbol |-> "SUNPHARMA",  name |-> "Sun Pharma"],
       [symbol |-> "TITAN",      name |-> "Titan Company"],
       [symbol |-> "WIPRO",      name |-> "Wipro"],
       [symbol |-> "HCLTECH",    name |-> "HCL Technologies"],
       [symbol |-> "ADANIENT",   name |-> "Adani Enterprises"] >>

\* getNifty50Stocks: nifty50
nifty50 ==
    << "ADANIENT", "ADANIPORTS", "APOLLOHOSP", "ASIANPAINT", "AXISBANK",
       "BAJAJ-AUTO", "BAJFINANCE", "BAJAJFINSV", "BPCL", "BHARTIARTL",
       "BRITANNIA", "CIPLA", "COALINDIA", "DIVISLAB", "DRREDDY",
       "EICHERMOT", "GRASIM", "HCLTECH", "HDFCBANK", "HDFCLIFE",
       "HEROMOTOCO", "HINDALCO", "HINDUNILVR", "ICICIBANK", "ITC",
       "INDUSINDBK", "INFY", "JSWSTEEL", "KOTAKBANK", "LT",
       "M&M", "MARUTI", "NTPC", "NESTLEIND", "ONGC",
       "POWERGRID", "RELIANCE", "SBILIFE", "SBIN", "SUNPHARMA",
       "TCS", "TATACONSUM", "TATAMOTORS", "TATASTEEL", "TECHM",
       "TITAN", "ULTRACEMCO", "UPL", "WIPRO" >>

\* the (stocks, err) pair a source function returns
Return(stocks, err) == [stocks |-> stocks, err |-> err]

\* every failure of a request is skipped with `continue`: the function
\* returns what the pages that answered yielded, and a nil error
scrapeMoneyControlTrending ==
    Return([k \in 1..Len(mcLinks) |-> Stock(mcLinks[k], "link", "MoneyControl", 1)],
           "nil")

\* any failure of the request is returned as the error
scrapeETMarkets ==
    IF up["Economic Times"]
    THEN Return([k \in 1..Len(etLinks) |-> Stock(etLinks[k], "link", "Economic Times", 1)],
                "nil")
    ELSE Return(<<>>, "error")

\* no request: the curated list
scrapeTradingViewIdeas ==
    Return([k \in 1..Len(activeStocks) |->
               Stock(activeStocks[k].symbol, activeStocks[k].name, "Active Stocks", 1)],
           "nil")

getNifty50Stocks ==
    [k \in 1..Len(nifty50) |-> Stock(nifty50[k], "", "NIFTY 50", 1)]

\* the error of a failed NSE request returned
scrapeNSETopGainersNoFallback ==
    IF up["NSE Top Gainers"]
    THEN Return(getNifty50Stocks, "nil")
    ELSE Return(<<>>, "request failed")

\* the answer of the NSE request is not read: the NIFTY 50 list either way
scrapeNSETopGainers ==
    IF up["NSE Top Gainers"]
    THEN Return(getNifty50Stocks, "nil")
    ELSE Return(getNifty50Stocks, "nil")   \* the fallback

\* extractFromNews: stockMentions, one entry per symbol with the number of
\* news items that relate to it
NewsSymbols == UNION {news[k] : k \in 1..Len(news)}
stockMentions ==
    [sym \in NewsSymbols |->
        Stock(sym, "", "News", Cardinality({k \in 1..Len(news) : sym \in news[k]}))]

\* the sequences that list every element of the set S once
RECURSIVE Orderings(_)
Orderings(S) ==
    IF S = {} THEN {<<>>}
    ELSE UNION {{<<x>> \o rest : rest \in Orderings(S \ {x})} : x \in S}

\* FetchAll skips the feeds that fail and returns a nil error; the entries of
\* stockMentions are listed in the iteration order of the map, which is given
\* as order
extractFromNews(order) ==
    Return([k \in 1..Len(order) |-> stockMentions[order[k]]], "nil")

\* what the function of source s can return
SourceReturns(s) ==
    CASE s = "MoneyControl"    -> {scrapeMoneyControlTrending}
      [] s = "Economic Times"  -> {scrapeETMarkets}
      [] s = "TradingView"     -> {scrapeTradingViewIdeas}
      [] s = "NSE Top Gainers" -> {scrapeNSETopGainers}
      [] s = "News Mentions"   -> {extractFromNews(order) : order \in Orderings(NewsSymbols)}

(***************************************************************************)
(* strings                                                                 *)
(***************************************************************************)
LowerLetters == "abcdefghijklmnopqrstuvwxyz"
UpperLetters == "ABCDEFGHIJKLMNOPQRSTUVWXYZ"
Char(s, k) == SubSeq(s, k, k)

LowerChars == {Char(LowerLetters, k) : k \in 1..Len(LowerLetters)}
UpperMap ==
    [c \in LowerChars |->
        Char(UpperLetters, CHOOSE k \in 1..Len(LowerLetters) : Char(LowerLetters, k) = c)]
UpperOf(c) == IF c \in LowerChars THEN UpperMap[c] ELSE c

\* strings.ToUpper
RECURSIVE ToUpper(_)
ToUpper(s) ==
    IF Len(s) = 0 THEN ""
    ELSE UpperOf(Char(s, 1)) \o ToUpper(SubSeq(s, 2, Len(s)))

IsSpace(c) == c \in {" ", "\t", "\n", "\r"}

\* strings.TrimSpace
RECURSIVE TrimSpace(_)
TrimSpace(s) ==
    IF Len(s) = 0 THEN ""
    ELSE IF IsSpace(Char(s, 1)) THEN TrimSpace(SubSeq(s, 2, Len(s)))
    ELSE IF IsSpace(Char(s, Len(s))) THEN TrimSpace(SubSeq(s, 1, Len(s) - 1))
    ELSE s

\* strings.TrimSuffix
TrimSuffix(s, suffix) ==
    IF Len(s) >= Len(suffix) /\ SubSeq(s, Len(s) - Len(suffix) + 1, Len(s)) = suffix
    THEN SubSeq(s, 1, Len(s) - Len(suffix))
    ELSE s

\* aggregateStocks: symbol after strings.ToUpper(strings.TrimSpace(s.Symbol));
\* a stock for which it is empty is skipped
UpperTrimmed(raw) == ToUpper(TrimSpace(raw))

\* aggregateStocks: the key a raw symbol is aggregated under
CleanSymbol(raw) == TrimSuffix(TrimSuffix(UpperTrimmed(raw), ".NS"), ".BO")

SetMax(S) == CHOOSE x \in S : \A y \in S : y <= x

\* an entry that keeps only what the latest stock of the key says
MergedLatestOnly(stocks, symbol, idx) ==
    Stock(symbol, stocks[SetMax(idx)].Name, stocks[SetMax(idx)].Source,
          stocks[SetMax(idx)].Mentions)

\* aggregateStocks: the entry of one key after the loop has passed the stocks
\* at idx, in the order of the list: the first creates the entry, each
\* later one updates it
RECURSIVE Merged(_, _, _)
Merged(stocks, symbol, idx) ==
    LET k == SetMax(idx)
        s == stocks[k]
    IN  IF idx = {k}
        THEN Stock(symbol, s.Name, s.Source, s.Mentions)
        ELSE LET existing == Merged(stocks, symbol, idx \ {k})
             IN  [Symbol   |-> existing.Symbol,
                  Name     |-> IF s.Name # "" /\ existing.Name = ""
                               THEN s.Name ELSE existing.Name,
                  Source   |-> existing.Source \o ", " \o s.Source,
                  Mentions |-> existing.Mentions + s.Mentions]

\* aggregateStocks: the map, whose entries the function lists in the
\* iteration order of the map.  cleaned pairs each stock that is not skipped
\* with the key it is aggregated under
aggregateStocks(stocks) ==
    LET cleaned == {<<k, CleanSymbol(stocks[k].Symbol)>> :
                       k \in {j \in 1..Len(stocks) : UpperTrimmed(stocks[j].Symbol) # ""}}
    IN  [symbol \in {c[2] : c \in cleaned} |->
            Merged(stocks, symbol, {c[1] : c \in {d \in cleaned : d[2] = symbol}})]

\* a cut at the highest mention count
CutMentionsHighest(entries) ==
    CHOOSE c \in {e.Mentions : e \in entries} : \A e \in entries : e.Mentions <= c

\* sort.Slice by descending Mentions and the cut to the first DiscoveryCap:
\* the mention count of the last stock kept
CutMentions(entries) ==
    CHOOSE c \in {e.Mentions : e \in entries} :
        /\ Cardinality({e \in entries : e.Mentions >= c}) >= DiscoveryCap
        /\ Cardinality({e \in entries : e.Mentions > c}) < DiscoveryCap

\* what DiscoverTrendingStocks returns from the map m.  The map is iterated
\* in random order and sort.Slice is not stable: the slice holds len stocks
\* by descending Mentions, all of certain among them and the others taken
\* from tied in an order the run chooses
TopCandidates(m) ==
    LET entries == {m[x] : x \in DOMAIN m}
    IN  IF Cardinality(entries) <= DiscoveryCap
        THEN [err |-> "nil", len |-> Cardinality(entries),
              certain |-> {e.Symbol : e \in entries}, tied |-> {}]
        ELSE [err |-> "nil", len |-> DiscoveryCap,
              certain |-> {e.Symbol : e \in {d \in entries : d.Mentions > CutMentions(entries)}},
              tied |-> {e.Symbol : e \in {d \in entries : d.Mentions = CutMentions(entries)}}]

\* lists of symbols a page yields
LinkLists == UNION {[1..n -> ScrapedSymbols] : n \in 0..MaxLinks}
\* RelatedSymbols of the news items FetchAll returns
NewsLists == UNION {[1..n -> (SUBSET ScrapedSymbols) \ {{}}] : n \in 0..MaxLinks}

InitDiscover ==
    /\ NoFetch
    /\ NoPicks
    /\ NoPure /\ NoAnalysis
    /\ up \in [SourceNames -> BOOLEAN]
    /\ up["TradingView"]
    /\ mcLinks \in (IF up["MoneyControl"] THEN LinkLists \ {<<>>} ELSE {<<>>})
    /\ etLinks \in (IF up["Economic Times"] THEN LinkLists ELSE {<<>>})
    /\ news \in (IF up["News Mentions"] THEN NewsLists \ {<<>>} ELSE {<<>>})
    /\ dpc = "spawn" /\ dSpawned = 0
    /\ gpc = [s \in SourceNames |-> "none"]
    /\ gret = [s \in SourceNames |-> NoReturn]
    /\ dmu = NoSource /\ dwg = 0 /\ allStocks = <<>>
    /\ aggregated = <<>> /\ dResult = "none"

\* wg.Add(1); go func(...)
D_Spawn ==
    /\ dpc = "spawn"
    /\ dSpawned < Len(Sources)
    /\ dSpawned' = dSpawned + 1
    /\ dwg' = dwg + 1
    /\ gpc' = [gpc EXCEPT ![Sources[dSpawned + 1]] = "fetching"]
    /\ UNCHANGED <<discInputVars, dpc, gret, dmu, allStocks, aggregated, dResult>>
    /\ UNCHANGED <<fetchVars, picksVars, pureVars, analysisVars>>

\* the loop over the sources ends
D_SpawnDone ==
    /\ dpc = "spawn"
    /\ dSpawned = Len(Sources)
    /\ dpc' = "wait"
    /\ UNCHANGED <<discInputVars, dSpawned, gpc, gret, dmu, dwg, allStocks,
                   aggregated, dResult>>
    /\ UNCHANGED <<fetchVars, picksVars, pureVars, analysisVars>>

\* stocks, err := fn(ctx); on an error the warning is printed and the
\* goroutine returns (deferred wg.Done)
G_Return(s) ==
    /\ gpc[s] = "fetching"
    /\ \E r \in SourceReturns(s) :
          /\ gret' = [gret EXCEPT ![s] = r]
          /\ IF r.err # "nil"
             THEN /\ gpc' = [gpc EXCEPT ![s] = "done"]
                  /\ dwg' = dwg - 1
             ELSE /\ gpc' = [gpc EXCEPT ![s] = "lock"]
                  /\ dwg' = dwg
    /\ UNCHANGED <<discInputVars, dpc, dSpawned, dmu, allStocks, aggregated, dResult>>
    /\ UNCHANGED <<fetchVars, picksVars, pureVars, analysisVars>>

\* mu.Lock()
G_Lock(s) ==
    /\ gpc[s] = "lock"
    /\ dmu = NoSource
    /\ dmu' = s
    /\ gpc' = [gpc EXCEPT ![s] = "critical"]
    /\ UNCHANGED <<discInputVars, dpc, dSpawned, gret, dwg, allStocks, aggregated,
                   dResult>>
    /\ UNCHANGED <<fetchVars, picksVars, pureVars, analysisVars>>

\* allStocks = append(allStocks, stocks...); mu.Unlock(); the goroutine
\* returns (deferred wg.Done)
G_Append(s) ==
    /\ gpc[s] = "critical"
    /\ allStocks' = allStocks \o gret[s].stocks
    /\ dmu' = NoSource
    /\ dwg' = dwg - 1
    /\ gpc' = [gpc EXCEPT ![s] = "done"]
    /\ UNCHANGED <<discInputVars, dpc, dSpawned, gret, aggregated, dResult>>
    /\ UNCHANGED <<fetchVars, picksVars, pureVars, analysisVars>>

\* a wait that returns while one goroutine is still running
WaitReturnsEarly(n) == n <= 1

\* wg.Wait() returns
WaitReturns(n) == n = 0

\* wg.Wait()
D_Wait ==
    /\ dpc = "wait"
    /\ WaitReturns(dwg)
    /\ dpc' = "aggregate"
    /\ UNCHANGED <<discInputVars, dSpawned, gpc, gret, dmu, dwg, allStocks,
                   aggregated, dResult>>
    /\ UNCHANGED <<fetchVars, picksVars, pureVars, analysisVars>>

\* aggregateStocks, sort.Slice, the cut to the top 30, return aggregated, nil
D_Aggregate ==
    /\ dpc = "aggregate"
    /\ aggregated' = aggregateStocks(allStocks)
    /\ dResult' = TopCandidates(aggregated')
    /\ dpc' = "done"
    /\ UNCHANGED <<discInputVars, dSpawned, gpc, gret, dmu, dwg, allStocks>>
    /\ UNCHANGED <<fetchVars, picksVars, pureVars, analysisVars>>

NextDiscover ==
    \/ D_Spawn
    \/ D_SpawnDone
    \/ \E s \in SourceNames : G_Return(s)
    \/ \E s \in SourceNames : G_Lock(s)
    \/ \E s \in SourceNames : G_Append(s)
    \/ D_Wait
    \/ D_Aggregate

SpecDiscover == InitDiscover /\ [][NextDiscover]_vars

(***************************************************************************)
(* Properties of the discovery                                             *)
(***************************************************************************)
\* the sources whose function returned a nil error
Succeeded == {s \in SourceNames : gret[s].err = "nil"}

\* the hits of the sources that succeeded, one after the other
RECURSIVE HitsOf(_)
HitsOf(k) ==
    IF k = 0 THEN <<>>
    ELSE HitsOf(k - 1) \o (IF Sources[k] \in Succeeded THEN gret[Sources[k]].stocks
                                                       ELSE <<>>)
SucceededHits == HitsOf(Len(Sources))

RECURSIVE SumMentions(_, _)
SumMentions(hits, idx) ==
    IF idx = {} THEN 0
    ELSE LET k == CHOOSE x \in idx : TRUE
         IN  hits[k].Mentions + SumMentions(hits, idx \ {k})

\* the sequences a and b hold the same elements, each as many times
SameBag(a, b) ==
    /\ Len(a) = Len(b)
    /\ \A k \in 1..Len(a) :
          Cardinality({j \in 1..Len(a) : a[j] = a[k]})
            = Cardinality({j \in 1..Len(b) : b[j] = a[k]})

\* C10: DiscoverTrendingStocks returns a nil error whichever sources fail;
\* the aggregation starts only after every source goroutine has returned;
\* its input holds every hit of every source that returned without error
\* (and nothing else), and every such hit is counted in the aggregated entry
\* of its symbol.
C10_DiscoverToleratesFailures ==
    /\ dpc = "done" => dResult.err = "nil"
    /\ dpc \in {"aggregate", "done"} =>
          /\ \A s \in SourceNames : gpc[s] = "done"
          /\ SameBag(SucceededHits, allStocks)
    /\ dpc = "done" =>
          LET hits == SucceededHits
              cleaned == {<<k, CleanSymbol(hits[k].Symbol)>> : k \in 1..Len(hits)}
          IN  \A c \in cleaned :
                 /\ c[2] \in DOMAIN aggregated
                 /\ aggregated[c[2]].Mentions =
                       SumMentions(hits, {d[1] : d \in {e \in cleaned : e[2] = c[2]}})

\* the Economic Times request and the news feeds failed, MoneyControl
\* yielded a link, and the call returned with that symbol aggregated
C10_Witness ==
    /\ dpc = "done"
    /\ gret["Economic Times"].err = "error"
    /\ ~up["News Mentions"]
    /\ mcLinks = <<"ZOMATO">>
    /\ "ZOMATO" \in DOMAIN aggregated

(***************************************************************************)
(* aggregateStocks on arbitrary stock lists                                *)
(***************************************************************************)
\* longest list of stocks aggregateStocks is applied to
MaxStocks == 2

\* raw symbols: casing, surrounding space and exchange suffixes of one
\* symbol, another symbol, a blank symbol and a bare suffix
RawSymbols == {"TCS", "tcs", " TCS", "TCS.NS", "TCS.BO", "INFY", "", ".NS"}

\* the stock at position k of a list: its source label and, if it has one,
\* its name tell the position
RawStocks(k) ==
    {Stock(symbol, name, "src" \o ToString(k), mentions) :
        symbol \in RawSymbols, name \in {"", "name" \o ToString(k)}, mentions \in {1, 2}}

RECURSIVE StockLists(_)
StockLists(n) ==
    IF n = 0 THEN {<<>>}
    ELSE StockLists(n - 1) \cup
         {Append(l, s) : l \in {x \in StockLists(n - 1) : Len(x) = n - 1},
                         s \in RawStocks(n)}

\* aggregateStocks is called on a stock list
InitAggregate ==
    /\ NoFetch
    /\ NoPicks
    /\ NoPure /\ NoAnalysis
    /\ up = [s \in SourceNames |-> TRUE]
    /\ mcLinks = <<>> /\ etLinks = <<>> /\ news = <<>>
    /\ dpc = "aggregate" /\ dSpawned = Len(Sources)
    /\ gpc = [s \in SourceNames |-> "done"]
    /\ gret = [s \in SourceNames |-> NoReturn]
    /\ dmu = NoSource /\ dwg = 0
    /\ allStocks \in StockLists(MaxStocks)
    /\ aggregated = <<>> /\ dResult = "none"

SpecAggregate == InitAggregate /\ [][D_Aggregate]_vars

\* sub occurs in s
Contains(s, sub) ==
    \E i \in 1..(Len(s) - Len(sub) + 1) : SubSeq(s, i, i + Len(sub) - 1) = sub

\* the stocks of allStocks with the normalized symbol symbol
WithSymbol(symbol) ==
    {k \in 1..Len(allStocks) : CleanSymbol(allStocks[k].Symbol) = symbol}
\* the stocks of allStocks whose symbol is not blank
NotBlank == {k \in 1..Len(allStocks) : UpperTrimmed(allStocks[k].Symbol) # ""}

RECURSIVE MentionsOf(_)
MentionsOf(idx) ==
    IF idx = {} THEN 0
    ELSE LET k == CHOOSE x \in idx : TRUE
         IN  allStocks[k].Mentions + MentionsOf(idx \ {k})

\* the first non-empty name among the stocks at idx, "" if there is none
FirstName(idx) ==
    LET named == {k \in idx : allStocks[k].Name # ""}
    IN  IF named = {} THEN ""
        ELSE allStocks[CHOOSE k \in named : \A j \in named : k <= j].Name

\* the candidate of symbol sums the mentions, holds the source labels and
\* has the first non-empty name of the stocks at idx
IsMergeOf(symbol, idx) ==
    /\ symbol \in DOMAIN aggregated
    /\ aggregated[symbol].Symbol = symbol
    /\ aggregated[symbol].Mentions = MentionsOf(idx)
    /\ \A k \in idx : Contains(aggregated[symbol].Source, allStocks[k].Source)
    /\ aggregated[symbol].Name = FirstName(idx)

\* C11 (as claimed): aggregateStocks yields exactly one candidate per
\* distinct normalized symbol among its inputs, which sums the mentions,
\* holds the source labels and has the first non-empty name of all the
\* inputs with that normalized symbol.
C11_OnePerNormalizedSymbol ==
    dpc = "done" =>
        /\ DOMAIN aggregated =
              {CleanSymbol(allStocks[k].Symbol) : k \in 1..Len(allStocks)}
        /\ \A symbol \in DOMAIN aggregated : IsMergeOf(symbol, WithSymbol(symbol))

\* C11 (amended): an input whose symbol is blank is skipped; aggregateStocks
\* yields exactly one candidate per distinct normalized symbol among the
\* other inputs, which sums the mentions, holds the source labels and has
\* the first non-empty name of those inputs with that normalized symbol.
C11_OnePerSymbolOfNonBlank ==
    dpc = "done" =>
        /\ DOMAIN aggregated = {CleanSymbol(allStocks[k].Symbol) : k \in NotBlank}
        /\ \A symbol \in DOMAIN aggregated :
              IsMergeOf(symbol, WithSymbol(symbol) \cap NotBlank)

\* two raw symbols that differ in casing and suffix were merged: the first
\* has no name, the second gives the name
C11_Witness ==
    /\ dpc = "done"
    /\ Len(allStocks) = 2
    /\ allStocks[1].Symbol = "tcs" /\ allStocks[1].Name = ""
    /\ allStocks[2].Symbol = "TCS.NS" /\ allStocks[2].Name # ""
    /\ DOMAIN aggregated = {"TCS"}
    /\ aggregated["TCS"].Mentions = allStocks[1].Mentions + allStocks[2].Mentions

(***************************************************************************)
(* Symbol normalization                                                    *)
(***************************************************************************)
\* most parts a raw symbol string is made of
MaxParts == 3

\* parts of raw symbol strings: letters of either case, a space, the
\* exchange suffixes
SymbolParts == {"tcs", "T", " ", ".NS", ".BO", ".NSE", ".BSE", ".ns"}

RECURSIVE SymbolStrings(_)
SymbolStrings(n) ==
    IF n = 0 THEN {""}
    ELSE SymbolStrings(n - 1) \cup
         {x \o part : x \in SymbolStrings(n - 1), part \in SymbolParts}

\* screener.normalizeSymbol
normalizeSymbol(symbol) ==
    TrimSuffix(TrimSuffix(TrimSuffix(TrimSuffix(ToUpper(symbol), ".NS"), ".BO"),
                          ".NSE"), ".BSE")

\* the latest value of a chain of applications that started from fnArg
Latest(chain) == IF chain = <<>> THEN fnArg ELSE chain[Len(chain)]

InitNormalize ==
    /\ NoFetch /\ NoPicks /\ NoDiscover /\ NoAnalysis
    /\ fnArg \in SymbolStrings(MaxParts)
    /\ fnRet = [agg |-> <<>>, fetch |-> <<>>]

\* the normalization of aggregateStocks, applied to the latest value
N_CleanSymbol ==
    /\ Len(fnRet.agg) < 2
    /\ fnRet' = [fnRet EXCEPT !.agg = Append(@, CleanSymbol(Latest(@)))]
    /\ UNCHANGED <<fnArg, fetchVars, picksVars, discVars, analysisVars>>

\* normalizeSymbol, applied to the latest value
N_NormalizeSymbol ==
    /\ Len(fnRet.fetch) < 2
    /\ fnRet' = [fnRet EXCEPT !.fetch = Append(@, normalizeSymbol(Latest(@)))]
    /\ UNCHANGED <<fnArg, fetchVars, picksVars, discVars, analysisVars>>

NextNormalize == N_CleanSymbol \/ N_NormalizeSymbol

SpecNormalize == InitNormalize /\ [][NextNormalize]_vars

\* C12: normalizing a normalized symbol gives the same symbol, for the
\* normalization of aggregateStocks and for normalizeSymbol.
C12_NormalizationIdempotent ==
    /\ Len(fnRet.agg) = 2 => fnRet.agg[2] = fnRet.agg[1]
    /\ Len(fnRet.fetch) = 2 => fnRet.fetch[2] = fnRet.fetch[1]

(***************************************************************************)
(* The list DiscoverTrendingStocks returns                                 *)
(***************************************************************************)
\* the lists the call can return from the map m, given res, what
\* TopCandidates says of them: the entries of m are listed in the iteration
\* order of the map and sorted by sort.Slice with a comparator that reads
\* Mentions only, so every order of the kept symbols by non-increasing
\* Mentions can come out
Listings(m, res) ==
    LET fill == {t \in SUBSET res.tied :
                    Cardinality(t) = res.len - Cardinality(res.certain \ res.tied)}
        kept == {(res.certain \ res.tied) \cup t : t \in fill}
    IN  {l \in UNION {Orderings(k) : k \in kept} :
            \A i, j \in 1..Len(l) : i < j => m[l[i]].Mentions >= m[l[j]].Mentions}

\* C13: the list DiscoverTrendingStocks returns is determined by the raw
\* hits: by descending mention count with ties broken by symbol order, so
\* only one list can come out of them.
C13_OutputDetermined ==
    dpc = "done" => Cardinality(Listings(aggregated, dResult)) = 1

\* the symbols a returned list can hold, and those it can leave out
MayReturn == dResult.certain \cup dResult.tied
MayLeaveOut == DOMAIN aggregated \ (dResult.certain \ dResult.tied)

\* C14: DiscoverTrendingStocks returns at most 30 candidates, all of the
\* aggregated ones if there are no more than 30, and no candidate left out
\* has more mentions than a candidate returned.
C14_TopThirty ==
    dpc = "done" =>
        /\ dResult.len <= 30
        /\ dResult.len = Min(Cardinality(DOMAIN aggregated), 30)
        /\ Cardinality(dResult.certain \ dResult.tied) <= dResult.len
        /\ dResult.len <= Cardinality(MayReturn)
        /\ MayReturn \subseteq DOMAIN aggregated
        /\ \A x \in MayLeaveOut : \A y \in MayReturn :
              (x \in dResult.tied /\ y \in dResult.tied)
                 \/ aggregated[x].Mentions <= aggregated[y].Mentions
        /\ \A x, y \in dResult.tied : aggregated[x].Mentions = aggregated[y].Mentions

\* more than 30 symbols were aggregated, one found by three sources among
\* them, and the cut fell among symbols of equal mentions
C14_Witness ==
    /\ dpc = "done"
    /\ Cardinality(DOMAIN aggregated) > 30
    /\ dResult.len = 30
    /\ \E x \in dResult.certain : aggregated[x].Mentions >= 3
    /\ Cardinality(MayReturn) > 30

(***************************************************************************)
(* The two modes on a discovered list of full length                       *)
(***************************************************************************)
\* the full list, no candidate or every candidate yielding a pick; the
\* batch request arrives with a cancelled context
InitFull ==
    /\ NoFetch /\ NoDiscover /\ NoPure /\ NoAnalysis
    /\ nDisc = LongList
    /\ \E o \in {ErrOutcome, BuyOutcome} : outcome = [i \in Cands |-> o]
    /\ chanCap = 0
    /\ InitStream
    /\ bpc = "idle" /\ bCand = 0 /\ resultsCap = 0 /\ spawned = 0
    /\ wpc = [i \in Cands |-> "none"] /\ sem = 0 /\ wg = 0 /\ results = <<>>
    /\ resultsClosed = 0 /\ totalAnalyzed = 0 /\ analyzedStocks = <<>>
    /\ bResult = "none" /\ bCancelled = TRUE /\ bStarted = <<>>

\* either kind of scenario
InitAnyList == Init \/ InitFull

SpecFull == InitAnyList /\ [][Next]_vars

\* the elements of the sequence s
Range(s) == {s[k] : k \in 1..Len(s)}

\* C15: in both modes at most 15 candidates are analyzed, all among the
\* first 15 of the discovered list, none twice; the list is truncated before
\* any analysis is scheduled: no worker is started and no analysis begins
\* for a candidate beyond the truncated list.
C15_AtMostFifteen ==
    LET started == {i \in Cands : wpc[i] # "none"}
    IN  /\ Len(sStarted) <= 15 /\ Len(bStarted) <= 15
        /\ Cardinality(Range(sStarted)) = Len(sStarted)
        /\ Cardinality(Range(bStarted)) = Len(bStarted)
        /\ Range(sStarted) \cup Range(bStarted) \subseteq 1..Min(nDisc, 15)
        /\ started \subseteq 1..Min(nDisc, 15)
        /\ sStarted # <<>> => sCand = Min(nDisc, 15)
        /\ started # {} => bCand = Min(nDisc, 15)

\* of 30 discovered candidates the streaming run has analyzed the first 15
\* and the batch run has started 15 workers
C15_Witness ==
    /\ nDisc = 30
    /\ sStarted = [k \in 1..15 |-> k]
    /\ {i \in Cands : wpc[i] # "none"} = 1..15

\* C16: every pick of a batch result and every Pick event of a stream has
\* the action BUY; a SELL or HOLD recommendation is never among the picks.
C16_OnlyBuyPicks ==
    /\ Len(PickEvents) <= Len(sPicks)
    /\ \A k \in 1..Len(PickEvents) : PickEvents[k].sym = sPicks[k].sym
    /\ \A k \in 1..Len(sPicks) : sPicks[k].action = "BUY"
    /\ \A k \in 1..Len(analyzedStocks) : analyzedStocks[k].action = "BUY"
    /\ bpc = "done" => \A k \in 1..Len(bResult.picks) : bResult.picks[k].action = "BUY"

\* both modes have analyzed a SELL, a HOLD and a BUY recommendation and
\* have delivered one pick
C16_Witness ==
    /\ nDisc = 3
    /\ {outcome[i].action : i \in 1..3} = {"SELL", "HOLD", "BUY"}
    /\ \A i \in 1..3 : outcome[i].pass
    /\ StreamRunComplete /\ Len(sStarted) = 3 /\ Len(PickEvents) = 1
    /\ bpc = "done" /\ ~bCancelled /\ totalAnalyzed = 3 /\ Len(bResult.picks) = 1

\* C17: in a batch run that is not cancelled, totalAnalyzed counts every
\* scheduled candidate exactly once: the results sent and not yet counted
\* are of distinct candidates, together with the count they are the
\* analyses finished, and the count returned is min(candidates, 15).
C17_TotalAnalyzedCountsScheduled ==
    ~bCancelled =>
        /\ Cardinality({results[k].sym : k \in 1..Len(results)}) = Len(results)
        /\ totalAnalyzed + Len(results) =
               Cardinality({i \in Range(bStarted) : wpc[i] = "done"})
        /\ bpc = "done" =>
               /\ totalAnalyzed = Min(nDisc, maxCandidates)
               /\ bResult.totalAnalyzed = totalAnalyzed

\* a batch run that was not cancelled has returned after three analyses of
\* which one failed and one led to no pick
C17_Witness ==
    /\ bpc = "done" /\ ~bCancelled
    /\ nDisc = 3 /\ bResult.totalAnalyzed = 3
    /\ \E i \in 1..3 : outcome[i].kind = "err"
    /\ \E i \in 1..3 : outcome[i].kind = "rec" /\ ~Accepted(outcome[i])
    /\ Len(bResult.picks) = 1

(***************************************************************************)
(* The batch run at the end of its collection, with more than 10 picks     *)
(***************************************************************************)
\* the orders in which the 15 analyses were started: k * step modulo 16
StartSteps == {1, 3, 7, 15}
\* the candidates that yield a pick are 1..n for n in AcceptedCounts
AcceptedCounts == {11, 12}
\* the confidence of candidate i: all different, or two low ones and the
\* others tied in pairs
ConfPatterns ==
    { [i \in Cands |-> 50 + i],
      [i \in Cands |-> IF i <= 2 THEN 30 ELSE 61 + (i % 5)] }

\* the 30-entry list cut to 15, every worker done, the results channel
\* closed and drained; the consumer of the stream has left before the
\* first event
InitCollected ==
    /\ NoFetch /\ NoDiscover /\ NoPure /\ NoAnalysis
    /\ nDisc = LongList /\ chanCap = 0
    /\ \E conf \in ConfPatterns, n \in AcceptedCounts :
          outcome = [i \in Cands |->
                       IF i <= n
                       THEN [kind |-> "rec", action |-> "BUY", conf |-> conf[i], pass |-> TRUE]
                       ELSE ErrOutcome]
    /\ spc = "sendDiscovering" /\ si = 0 /\ sCand = 0 /\ sPicks = <<>>
    /\ pickRank = 0 /\ sCancelled = FALSE /\ chanLog = <<>> /\ nRecv = 0
    /\ consuming = FALSE /\ sStarted = <<>>
    /\ bpc = "collect" /\ bCand = maxCandidates /\ resultsCap = LongList
    /\ spawned = maxCandidates
    /\ wpc = [i \in Cands |-> IF i <= maxCandidates THEN "done" ELSE "none"]
    /\ sem = 0 /\ wg = 0 /\ results = <<>> /\ resultsClosed = 1
    /\ totalAnalyzed = maxCandidates
    /\ \E step \in StartSteps :
          bStarted = [k \in 1..maxCandidates |-> (k * step) % (maxCandidates + 1)]
    /\ analyzedStocks =
          LET done == SelectSeq(bStarted, LAMBDA i : Accepted(outcome[i]))
          IN  [k \in 1..Len(done) |-> MakePick(done[k], outcome[done[k]], 0)]
    /\ bResult = "none" /\ bCancelled = FALSE

\* the runs of Spec and the runs from the end of a long collection
InitAnyCollected == Init \/ InitCollected

SpecCollected == InitAnyCollected /\ [][Next]_vars

\* C18: the picks of a batch result are the accepted picks of highest
\* confidence, at most 10 of them, in an order of non-increasing confidence
\* whatever the order of completion, with the ranks 1..N after the cut.
C18_TopTenRanked ==
    bpc = "done" =>
        LET P == bResult.picks
            A == analyzedStocks
            kept == {P[k].sym : k \in 1..Len(P)}
        IN  /\ Len(P) = Min(Len(A), 10)
            /\ Cardinality(kept) = Len(P)
            /\ \A k \in 1..Len(P) : [P[k] EXCEPT !.rank = 0] \in Range(A)
            /\ \A k \in 1..Len(A) : Accepted(outcome[A[k].sym])
            /\ IsSortedByConfidence(P)
            /\ \A k \in 1..Len(P) : P[k].rank = k
            /\ \A j \in 1..Len(A) : A[j].sym \notin kept =>
                   \A k \in 1..Len(P) : P[k].conf >= A[j].conf

\* 12 picks were collected in an order that is not the one of their
\* confidence, and 10 are returned
C18_Witness ==
    /\ bpc = "done"
    /\ Len(analyzedStocks) = 12
    /\ ~IsSortedByConfidence(analyzedStocks)
    /\ Len(bResult.picks) = 10

\* C19: a stream emits its Pick events in the order in which the analyses
\* complete, the k-th of them with rank k (a candidate the filter rejects
\* takes no rank); after the 10th accepted pick no analysis is started, and
\* a stream holds at most 10 Pick events.
C19_StreamRanksDense ==
    /\ Len(PickEvents) <= Len(sPicks) /\ Len(sPicks) <= Len(PickEvents) + 1
    /\ Len(PickEvents) <= 10 /\ Len(sPicks) <= 10
    /\ \A k \in 1..Len(PickEvents) :
          PickEvents[k].sym = sPicks[k].sym /\ PickEvents[k].n = k
    /\ \A k \in 1..Len(sPicks) :
          /\ sPicks[k].rank = k
          /\ Accepted(outcome[sPicks[k].sym])
          /\ \E j \in 1..Len(sStarted) : sStarted[j] = sPicks[k].sym
    /\ \A j, k \in 1..Len(sPicks) : j < k => sPicks[j].sym < sPicks[k].sym
    /\ \A j, k \in 1..Len(sStarted) : j < k => sStarted[j] < sStarted[k]
    /\ Len(sPicks) = 10 => sStarted[Len(sStarted)] = sPicks[10].sym

\* the filter has rejected the first candidate, the candidates 2..11 have
\* been streamed with the ranks 1..10, and the stream has ended
C19_Witness ==
    /\ StreamRunComplete
    /\ outcome[1] = FilteredOutcome
    /\ Len(PickEvents) = 10
    /\ \A k \in 1..10 : PickEvents[k].sym = k + 1 /\ PickEvents[k].n = k
    /\ Len(sStarted) = 11

\* C20: the market sentiment that a batch run computes (it computes one
\* whenever there are candidates to analyze) is the one of all accepted
\* picks, those cut off by the limit of 10 included; three candidates with
\* Buy at 72, Buy at 55 and Hold give the two picks of confidence 72 and 55
\* with the ranks 1 and 2 and the sentiment of these two.
C20_SentimentBeforeTruncation ==
    (bpc = "done" /\ nDisc > 0) =>
        LET A == analyzedStocks
            n == Len(A)
            total == SumConf(A)
            buys == BuyCount(A)
            P == bResult.picks
        IN  /\ bResult.sentiment =
                  IF n = 0 THEN "NEUTRAL"
                  ELSE IF total > 60 * n /\ 2 * buys > n THEN "BULLISH"
                  ELSE IF total < 40 * n \/ 10 * buys < 3 * n THEN "BEARISH"
                  ELSE "NEUTRAL"
            /\ ( /\ ~bCancelled /\ nDisc = 3
                 /\ \E i, j, k \in 1..3 :
                       /\ {i, j, k} = 1..3
                       /\ outcome[i] = [kind |-> "rec", action |-> "BUY", conf |-> 72, pass |-> TRUE]
                       /\ outcome[j] = [kind |-> "rec", action |-> "BUY", conf |-> 55, pass |-> TRUE]
                       /\ outcome[k] = [kind |-> "rec", action |-> "HOLD", conf |-> 60, pass |-> TRUE] )
               => /\ Len(P) = 2
                  /\ P[1].conf = 72 /\ P[1].rank = 1
                  /\ P[2].conf = 55 /\ P[2].rank = 2
                  /\ bResult.sentiment = "BULLISH"
                  /\ bResult.totalAnalyzed = 3

\* of 12 accepted picks 10 are returned, and the sentiment of the 12 is not
\* the one that the 10 alone would give
C20_Witness ==
    /\ bpc = "done"
    /\ Len(analyzedStocks) = 12 /\ Len(bResult.picks) = 10
    /\ bResult.sentiment = "NEUTRAL"
    /\ determineMarketSentiment(bResult.picks) = "BULLISH"

(***************************************************************************)
(* Engine.determineMarketSentiment on its own                              *)
(***************************************************************************)
MaxPicks == 10
\* the confidence shared by the picks of a set, and what one of them is off
ConfLevels == {39, 40, 41, 59, 60, 61}
ConfOffsets == {-1, 0, 1}

\* buys picks with the action BUY followed by others with the action HOLD,
\* all of confidence conf but the first, which is off by d
PickSet(buys, others, conf, d) ==
    [k \in 1..(buys + others) |->
        [sym |-> k, action |-> IF k <= buys THEN "BUY" ELSE "HOLD",
         conf |-> IF k = 1 THEN conf + d ELSE conf, rank |-> 0]]

InitSentiment ==
    /\ NoFetch /\ NoPicks /\ NoDiscover /\ NoAnalysis
    /\ \E buys \in 0..MaxPicks, others \in 0..MaxPicks, conf \in ConfLevels, d \in ConfOffsets :
          /\ buys + others <= MaxPicks
          /\ fnArg = [fn |-> "determineMarketSentiment", in |-> PickSet(buys, others, conf, d)]
    /\ fnRet = <<>>

M_Determine ==
    /\ fnRet = <<>>
    /\ fnArg.fn = "determineMarketSentiment"
    /\ fnRet' = <<determineMarketSentiment(fnArg.in)>>
    /\ UNCHANGED <<fnArg, fetchVars, picksVars, discVars, analysisVars>>

SpecSentiment == InitSentiment /\ [][M_Determine]_vars

\* C21: determineMarketSentiment returns NEUTRAL for no picks; otherwise
\* BULLISH when the average confidence is above 60 and more than half of the
\* picks are BUY, else BEARISH when the average is below 40 or less than
\* 3 in 10 are BUY, else NEUTRAL; the values 60, 40, 1/2 and 3/10
\* themselves do not count as above or below.
C21_SentimentThresholds ==
    fnRet # <<>> =>
        LET picks == fnArg.in
            n == Len(picks)
            total == SumConf(picks)
            buys == BuyCount(picks)
            bullish == n > 0 /\ total > 60 * n /\ 2 * buys > n
            bearish == n > 0 /\ ~bullish /\ (total < 40 * n \/ 10 * buys < 3 * n)
        IN  /\ fnRet[1] \in {"BULLISH", "BEARISH", "NEUTRAL"}
            /\ fnRet[1] = "BULLISH" <=> bullish
            /\ fnRet[1] = "BEARISH" <=> bearish
            /\ n = 0 => fnRet[1] = "NEUTRAL"

\* 10 picks of average confidence 60, 3 of them BUY: neither above 60 nor
\* below 3 in 10, and the label is NEUTRAL
C21_Witness ==
    /\ fnRet = <<"NEUTRAL">>
    /\ Len(fnArg.in) = 10 /\ BuyCount(fnArg.in) = 3 /\ SumConf(fnArg.in) = 600

(***************************************************************************)
(* Engine.AnalyzeStock, step by step                                       *)
(***************************************************************************)
MaxNews == 2
\* what a read of the repository returns
Reads == {"err", "nil", "found"}

InitAnalysis ==
    /\ NoFetch /\ NoPicks /\ NoDiscover /\ NoPure
    /\ apc = "getStock" /\ ScrapeEnabled \in BOOLEAN /\ stock = "nil"
    /\ stockData = FALSE /\ fundamental = FALSE /\ fetchCalls = 0
    /\ fetchFailed = 0 /\ saveFailed = {} /\ readFailed = FALSE
    /\ newsLeft = 0 /\ aResult = "none"

\* return nil, fmt.Errorf(...)
ReturnError == apc' = "done" /\ aResult' = "error"

\* 1. e.repo.GetStockBySymbol
A_GetStock ==
    /\ apc = "getStock"
    /\ \E r \in Reads :
         CASE r = "err" ->
                /\ readFailed' = TRUE /\ ReturnError /\ UNCHANGED stock
           [] r = "nil" ->
                /\ apc' = IF ScrapeEnabled THEN "fetchStock" ELSE "createStock"
                /\ UNCHANGED <<stock, readFailed, aResult>>
           [] r = "found" ->
                /\ stock' = "found" /\ apc' = "getFundamental"
                /\ UNCHANGED <<readFailed, aResult>>
    /\ UNCHANGED <<ScrapeEnabled, stockData, fundamental, fetchCalls, fetchFailed,
                   saveFailed, newsLeft>>
    /\ UNCHANGED <<fetchVars, picksVars, discVars, pureVars>>

\* e.screenerScraper.FetchStock for a stock that is not stored; a failure is
\* noted and the stock is created with its symbol as name
A_FetchStock ==
    /\ apc = "fetchStock"
    /\ fetchCalls' = fetchCalls + 1
    /\ \E ok \in BOOLEAN :
         /\ stockData' = ok
         /\ fetchFailed' = IF ok THEN fetchFailed ELSE fetchFailed + 1
    /\ apc' = "createStock"
    /\ UNCHANGED <<ScrapeEnabled, stock, fundamental, saveFailed, readFailed,
                   newsLeft, aResult>>
    /\ UNCHANGED <<fetchVars, picksVars, discVars, pureVars>>

\* e.repo.CreateStock: on an error the call returns "failed to create stock"
A_CreateStock ==
    /\ apc = "createStock"
    /\ \E ok \in BOOLEAN :
         IF ok
         THEN /\ stock' = "created"
              /\ apc' = IF stockData THEN "saveFundamental" ELSE "getFundamental"
              /\ UNCHANGED <<saveFailed, aResult>>
         ELSE /\ saveFailed' = saveFailed \cup {"stock"}
              /\ ReturnError
              /\ UNCHANGED stock
    /\ UNCHANGED <<ScrapeEnabled, stockData, fundamental, fetchCalls, fetchFailed,
                   readFailed, newsLeft>>
    /\ UNCHANGED <<fetchVars, picksVars, discVars, pureVars>>

\* e.repo.CreateFundamental of the fetched data: a failure is printed as a
\* warning, a success sets result.Fundamental
A_SaveFundamental ==
    /\ apc = "saveFundamental"
    /\ \E ok \in BOOLEAN :
         IF ok
         THEN fundamental' = TRUE /\ UNCHANGED saveFailed
         ELSE saveFailed' = saveFailed \cup {"fundamental"} /\ UNCHANGED fundamental
    /\ apc' = "getFundamental"
    /\ UNCHANGED <<ScrapeEnabled, stock, stockData, fetchCalls, fetchFailed,
                   readFailed, newsLeft, aResult>>
    /\ UNCHANGED <<fetchVars, picksVars, discVars, pureVars>>

\* 2. if result.Fundamental == nil: e.repo.GetLatestFundamental; with none
\* stored and scraping enabled, FetchStock is called
A_GetFundamental ==
    /\ apc = "getFundamental"
    /\ IF fundamental
       THEN apc' = "fetchNews" /\ UNCHANGED <<fundamental, readFailed, aResult>>
       ELSE \E r \in Reads :
              CASE r = "err" ->
                     /\ readFailed' = TRUE /\ ReturnError /\ UNCHANGED fundamental
                [] r = "found" ->
                     /\ fundamental' = TRUE /\ apc' = "fetchNews"
                     /\ UNCHANGED <<readFailed, aResult>>
                [] r = "nil" ->
                     /\ apc' = IF ScrapeEnabled THEN "fetchFundamental" ELSE "fetchNews"
                     /\ UNCHANGED <<fundamental, readFailed, aResult>>
    /\ UNCHANGED <<ScrapeEnabled, stock, stockData, fetchCalls, fetchFailed,
                   saveFailed, newsLeft>>
    /\ UNCHANGED <<fetchVars, picksVars, discVars, pureVars>>

\* e.screenerScraper.FetchStock for the fundamentals; if err == nil the data
\* is saved (a failure is printed as a warning) and becomes result.Fundamental
A_FetchFundamental ==
    /\ apc = "fetchFundamental"
    /\ fetchCalls' = fetchCalls + 1
    /\ \E ok \in BOOLEAN :
         IF ok
         THEN /\ fundamental' = TRUE
              /\ \E saved \in BOOLEAN :
                    saveFailed' = IF saved THEN saveFailed
                                  ELSE saveFailed \cup {"fundamental"}
              /\ UNCHANGED fetchFailed
         ELSE /\ fetchFailed' = fetchFailed + 1
              /\ UNCHANGED <<fundamental, saveFailed>>
    /\ apc' = "fetchNews"
    /\ UNCHANGED <<ScrapeEnabled, stock, stockData, readFailed, newsLeft, aResult>>
    /\ UNCHANGED <<fetchVars, picksVars, discVars, pureVars>>

\* 3. e.newsFetcher.FetchAll and FilterNewsBySymbol: some news of the symbol
A_FetchNews ==
    /\ apc = "fetchNews"
    /\ newsLeft' \in 0..MaxNews
    /\ apc' = "saveNews"
    /\ UNCHANGED <<ScrapeEnabled, stock, stockData, fundamental, fetchCalls,
                   fetchFailed, saveFailed, readFailed, aResult>>
    /\ UNCHANGED <<fetchVars, picksVars, discVars, pureVars>>

\* for _, n := range stockNews: GetNewsByURL, and CreateNews if it is not
\* stored; a failure is printed as a warning
A_SaveNews ==
    /\ apc = "saveNews"
    /\ newsLeft > 0
    /\ newsLeft' = newsLeft - 1
    /\ \E existing, ok \in BOOLEAN :
         saveFailed' = IF ~existing /\ ~ok THEN saveFailed \cup {"news"} ELSE saveFailed
    /\ UNCHANGED <<apc, ScrapeEnabled, stock, stockData, fundamental, fetchCalls,
                   fetchFailed, readFailed, aResult>>
    /\ UNCHANGED <<fetchVars, picksVars, discVars, pureVars>>

\* 4. to 7.: keyword and LLM analysis, generateRecommendation,
\* e.repo.CreateRecommendation: on an error the call returns "failed to save
\* recommendation", else the result
A_Recommend ==
    /\ apc = "saveNews"
    /\ newsLeft = 0
    /\ \E ok \in BOOLEAN :
         IF ok
         THEN aResult' = "analysis" /\ UNCHANGED saveFailed
         ELSE aResult' = "error" /\ saveFailed' = saveFailed \cup {"recommendation"}
    /\ apc' = "done"
    /\ UNCHANGED <<ScrapeEnabled, stock, stockData, fundamental, fetchCalls,
                   fetchFailed, readFailed, newsLeft>>
    /\ UNCHANGED <<fetchVars, picksVars, discVars, pureVars>>

NextAnalysis ==
    \/ A_GetStock
    \/ A_FetchStock
    \/ A_CreateStock
    \/ A_SaveFundamental
    \/ A_GetFundamental
    \/ A_FetchFundamental
    \/ A_FetchNews
    \/ A_SaveNews
    \/ A_Recommend

SpecAnalysis == InitAnalysis /\ [][NextAnalysis]_vars

\* C22: a failure to save a stock record, fundamentals, a news item or a
\* recommendation does not abort the analysis: unless a read of the
\* repository fails, AnalyzeStock returns the analysis with its
\* recommendation.
C22_SaveFailureDoesNotAbort ==
    (apc = "done" /\ ~readFailed) => aResult = "analysis"

\* C23: the analyzer does not call FetchStock again after a FetchStock of
\* the same call has failed, and one call of AnalyzeStock makes at most one
\* call of FetchStock.
C23_OneFetchPerAnalysis ==
    /\ fetchCalls <= 1
    /\ fetchFailed > 0 => fetchCalls = 1

(***************************************************************************)
(* sentiment.Analyzer                                                      *)
(***************************************************************************)
\* getBullishDictionary, the weights in tenths
bullishWords ==
    [ surge |-> 10, surges |-> 10, surging |-> 10, soar |-> 10, soars |->
      10, soaring |-> 10, rally |-> 9, rallies |-> 9, rallying |-> 9, boom
      |-> 9, booming |-> 9, skyrocket |-> 10, skyrockets |-> 10,
      breakthrough |-> 9, breakout |-> 8, gain |-> 7, gains |-> 7, gaining
      |-> 7, rise |-> 6, rises |-> 6, rising |-> 6, up |-> 4, higher |->
      5, high |-> 4, increase |-> 6, increases |-> 6, increasing |-> 6,
      growth |-> 7, growing |-> 7, grow |-> 6, advance |-> 6, advances |->
      6, advancing |-> 6, climb |-> 6, climbs |-> 6, climbing |-> 6, jump
      |-> 7, jumps |-> 7, jumping |-> 7, recover |-> 6, recovers |-> 6,
      recovery |-> 7, rebound |-> 6, rebounds |-> 6, rebounding |-> 6,
      bullish |-> 9, optimistic |-> 8, optimism |-> 8, positive |-> 6,
      upbeat |-> 7, confident |-> 6, confidence |-> 6, strong |-> 6,
      strength |-> 6, robust |-> 7, solid |-> 5, healthy |-> 5, outperform
      |-> 8, outperforms |-> 8, beat |-> 6, beats |-> 6, beating |-> 6,
      exceed |-> 7, exceeds |-> 7, exceeding |-> 7, upgrade |-> 8,
      upgrades |-> 8, upgraded |-> 8, buy |-> 7, accumulate |-> 7, profit
      |-> 7, profits |-> 7, profitable |-> 7, earnings |-> 5, revenue |->
      4, dividend |-> 5, expansion |-> 6, expand |-> 6, expands |-> 6,
      expanding |-> 6, nifty |-> 3, sensex |-> 3, fii |-> 3, dii |-> 3,
      multibagger |-> 9 ]

\* getBearishDictionary, the weights in tenths
bearishWords ==
    [ crash |-> 10, crashes |-> 10, crashing |-> 10, plunge |-> 10,
      plunges |-> 10, plunging |-> 10, collapse |-> 10, collapses |-> 10,
      collapsing |-> 10, tank |-> 9, tanks |-> 9, tanking |-> 9, tumble
      |-> 9, tumbles |-> 9, tumbling |-> 9, freefall |-> 10, fall |-> 7,
      falls |-> 7, falling |-> 7, drop |-> 7, drops |-> 7, dropping |-> 7,
      decline |-> 7, declines |-> 7, declining |-> 7, down |-> 4, lower
      |-> 5, low |-> 4, decrease |-> 6, decreases |-> 6, decreasing |-> 6,
      loss |-> 8, losses |-> 8, losing |-> 7, lose |-> 7, slip |-> 5,
      slips |-> 5, slipping |-> 5, slide |-> 6, slides |-> 6, sliding |->
      6, sink |-> 7, sinks |-> 7, sinking |-> 7, dip |-> 5, dips |-> 5,
      dipping |-> 5, retreat |-> 5, retreats |-> 5, retreating |-> 5,
      bearish |-> 9, pessimistic |-> 8, pessimism |-> 8, negative |-> 6,
      weak |-> 6, weakness |-> 6, concern |-> 5, concerns |-> 5, worried
      |-> 6, worry |-> 6, worries |-> 6, fear |-> 7, fears |-> 7,
      uncertain |-> 5, uncertainty |-> 6, volatile |-> 5, volatility |->
      5, risk |-> 4, risks |-> 4, risky |-> 5, underperform |-> 8,
      underperforms |-> 8, miss |-> 6, misses |-> 6, missing |-> 6,
      downgrade |-> 8, downgrades |-> 8, downgraded |-> 8, sell |-> 7,
      selling |-> 6, debt |-> 5, default |-> 9, defaults |-> 9, bankrupt
      |-> 10, bankruptcy |-> 10, fraud |-> 10, scam |-> 10, scandal |-> 9,
      correction |-> 6, selloff |-> 8, bloodbath |-> 10, carnage |-> 10,
      meltdown |-> 10, recession |-> 8, inflation |-> 5, crisis |-> 9 ]

\* getIntensifiers, the multipliers in tenths
intensifiers ==
    [ very |-> 15, extremely |-> 20, highly |-> 15, significantly |-> 15,
      substantially |-> 15, massively |-> 20, hugely |-> 18, sharply |->
      15, strongly |-> 13, dramatically |-> 18, tremendously |-> 18,
      absolutely |-> 15, completely |-> 15, totally |-> 15, major |-> 13,
      huge |-> 15, big |-> 12, massive |-> 18 ]

\* getNegators
negators ==
    { "not", "no", "never", "neither", "nobody", "nothing", "nowhere",
      "none", "hardly", "barely", "scarcely", "without", "dont", "doesn",
      "didnt", "wont", "wouldnt", "couldnt", "shouldnt", "cant", "cannot",
      "isnt", "arent", "wasnt", "werent", "hasnt", "havent", "hadnt",
      "unlikely", "fail", "fails", "failed" }

Digits == "0123456789"
LowerOf(c) ==
    IF \E k \in 1..Len(UpperLetters) : Char(UpperLetters, k) = c
    THEN Char(LowerLetters, CHOOSE k \in 1..Len(UpperLetters) : Char(UpperLetters, k) = c)
    ELSE c

\* unicode.IsLetter(r) || unicode.IsNumber(r)
IsWordChar(c) ==
    \E k \in 1..Len(LowerLetters \o UpperLetters \o Digits) :
        Char(LowerLetters \o UpperLetters \o Digits, k) = c

\* tokenize: the maximal runs of letters and digits, in lower case; words
\* are the words complete so far, current is the one being built
RECURSIVE TokenizeFrom(_, _, _)
TokenizeFrom(text, words, current) ==
    IF Len(text) = 0
    THEN IF Len(current) > 0 THEN Append(words, current) ELSE words
    ELSE LET c == Char(text, 1)
             rest == SubSeq(text, 2, Len(text))
         IN  IF IsWordChar(c) THEN TokenizeFrom(rest, words, current \o LowerOf(c))
             ELSE IF Len(current) > 0 THEN TokenizeFrom(rest, Append(words, current), "")
             ELSE TokenizeFrom(rest, words, "")

tokenize(text) == TokenizeFrom(text, <<>>, "")

\* a negator in the window that reaches 4 words back
isNegatedWithin4(words, i) ==
    \E j \in (IF i - 4 < 1 THEN 1 ELSE i - 4)..(i - 1) : words[j] \in negators

\* isNegated: one of the 3 words before position i is a negator
isNegated(words, i) ==
    \E j \in (IF i - 3 < 1 THEN 1 ELSE i - 3)..(i - 1) : words[j] \in negators

\* the multipliers of all intensifiers in the window, multiplied (in tenths)
getIntensityCompounded(words, i) ==
    LET start == IF i - 2 < 1 THEN 1 ELSE i - 2
        mult(j) == IF j >= start /\ j < i /\ words[j] \in DOMAIN intensifiers
                   THEN intensifiers[words[j]] ELSE 10
    IN  (mult(i - 2) * mult(i - 1)) \div 10

\* getIntensity: the multiplier of the first intensifier among the 2 words
\* before position i, else 1.0 (in tenths)
getIntensity(words, i) ==
    LET start == IF i - 2 < 1 THEN 1 ELSE i - 2
        found == {j \in start..(i - 1) : words[j] \in DOMAIN intensifiers}
    IN  IF found = {} THEN 10
        ELSE intensifiers[words[CHOOSE j \in found : \A k \in found : j <= k]]

\* the body of the loop for position i: what is added to the bullish and to
\* the bearish score (in hundredths), the keyword lists, totalWords (no word
\* is in both dictionaries)
Hit(words, i) ==
    LET word == words[i]
        negated == isNegated(words, i)
        intensity == getIntensity(words, i)
        asBullish == word \in DOMAIN bullishWords
        asBearish == word \in DOMAIN bearishWords
        score == IF asBullish THEN bullishWords[word]
                 ELSE IF asBearish THEN bearishWords[word] ELSE 0
        toBullish == (asBullish /\ ~negated) \/ (asBearish /\ negated)
        toBearish == (asBullish /\ negated) \/ (asBearish /\ ~negated)
    IN  [bullish |-> IF toBullish THEN score * intensity ELSE 0,
         bearish |-> IF toBearish THEN score * intensity ELSE 0,
         bullishKeywords |-> IF toBullish THEN <<word>> ELSE <<>>,
         bearishKeywords |-> IF toBearish THEN <<word>> ELSE <<>>,
         totalWords |-> IF asBullish \/ asBearish THEN 1 ELSE 0]

\* the loop over the positions 1..n
RECURSIVE Hits(_, _)
Hits(words, n) ==
    IF n = 0
    THEN [bullish |-> 0, bearish |-> 0, bullishKeywords |-> <<>>,
          bearishKeywords |-> <<>>, totalWords |-> 0]
    ELSE LET before == Hits(words, n - 1)
             h == Hit(words, n)
         IN  [bullish |-> before.bullish + h.bullish,
              bearish |-> before.bearish + h.bearish,
              bullishKeywords |-> before.bullishKeywords \o h.bullishKeywords,
              bearishKeywords |-> before.bearishKeywords \o h.bearishKeywords,
              totalWords |-> before.totalWords + h.totalWords]

\* unique: the first occurrences, in order
RECURSIVE unique(_)
unique(slice) ==
    IF slice = <<>> THEN <<>>
    ELSE LET front == unique(SubSeq(slice, 1, Len(slice) - 1))
             last == slice[Len(slice)]
         IN  IF \E k \in 1..Len(front) : front[k] = last THEN front
             ELSE Append(front, last)

\* the difference of the scores, not divided by their sum
ScoreUnscaled(bullishScore, bearishScore, dev) == <<bullishScore - bearishScore, 100, 0>>

\* score: (bullishScore - bearishScore) / totalScore if totalScore > 0,
\* else 0. The float64 value is written <<numerator, denominator, dev>>:
\* the fraction as computed without rounding, and the sign of what the
\* rounding of the sums, products and quotient has added to it
Score(bullishScore, bearishScore, dev) ==
    IF bullishScore + bearishScore > 0
    THEN <<bullishScore - bearishScore, bullishScore + bearishScore, dev>>
    ELSE <<0, 1, 0>>

\* the rounding the float64 operations may leave in the score: none when
\* one of the scores is 0 (the quotient is then 1, -1 or not taken)
Roundings(bullishScore, bearishScore) ==
    IF bullishScore = 0 \/ bearishScore = 0 THEN {0} ELSE {-1, 0, 1}

\* the score is above the fraction num / den
Above(score, num, den) ==
    \/ den * score[1] > num * score[2]
    \/ den * score[1] = num * score[2] /\ score[3] > 0

\* the score is below the fraction num / den
Below(score, num, den) ==
    \/ den * score[1] < num * score[2]
    \/ den * score[1] = num * score[2] /\ score[3] < 0

\* the thresholds taken on the inclusive side
SentimentOfInclusive(score) ==
    IF ~Below(score, 1, 10) THEN "BULLISH"
    ELSE IF ~Above(score, -1, 10) THEN "BEARISH"
    ELSE "NEUTRAL"

\* switch: score > 0.1 is Bullish, score < -0.1 is Bearish, default Neutral
SentimentOf(score) ==
    IF Above(score, 1, 10) THEN "BULLISH"
    ELSE IF Below(score, -1, 10) THEN "BEARISH"
    ELSE "NEUTRAL"

\* confidence: totalWords / (len(words) + 1), at most 1; a fraction
Confidence(totalWords, n) ==
    IF totalWords > n + 1 THEN <<1, 1>> ELSE <<totalWords, n + 1>>

\* Analyzer.Analyze: the results the call may return
Analyze(text) ==
    LET words == tokenize(text)
        h == Hits(words, Len(words))
        resultOf(score) ==
            [Sentiment |-> SentimentOf(score),
             Score |-> score,
             BullishKeywords |-> unique(h.bullishKeywords),
             BearishKeywords |-> unique(h.bearishKeywords),
             Confidence |-> Confidence(h.totalWords, Len(words))]
    IN  {resultOf(Score(h.bullish, h.bearish, dev)) : dev \in Roundings(h.bullish, h.bearish)}

MaxWords == 4
MaxStyledWords == 2
\* a negator, two intensifiers, a word of no dictionary, bullish words of
\* weight 0.9, 0.4 and 0.7, a bearish word of weight 0.9
Vocabulary == {"not", "very", "extremely", "the", "bullish", "up", "gain", "bearish"}

RECURSIVE WordLists(_)
WordLists(n) ==
    IF n = 0 THEN {<<>>}
    ELSE LET shorter == WordLists(n - 1)
         IN  shorter \cup {Append(l, w) : l \in {x \in shorter : Len(x) = n - 1}, w \in Vocabulary}

RECURSIVE Join(_, _)
Join(list, sep) ==
    IF list = <<>> THEN ""
    ELSE IF Len(list) = 1 THEN list[1]
    ELSE list[1] \o sep \o Join(Tail(list), sep)

\* the words separated by blanks, two words with three others between
\* them, and the short lists also in capitals, with punctuation
Texts ==
    {Join(l, " ") : l \in WordLists(MaxWords)}
      \cup {Join(<<a, "the", "the", "the", b>>, " ") : a, b \in Vocabulary}
      \cup {ToUpper(Join(l, ", ")) \o "!" : l \in WordLists(MaxStyledWords)}
      \cup {" "}

InitAnalyze ==
    /\ NoFetch /\ NoPicks /\ NoDiscover /\ NoAnalysis
    /\ \E text \in Texts : fnArg = [fn |-> "Analyze", in |-> text]
    /\ fnRet = <<>>

T_Analyze ==
    /\ fnRet = <<>>
    /\ fnArg.fn = "Analyze"
    /\ \E r \in Analyze(fnArg.in) : fnRet' = <<r>>
    /\ UNCHANGED <<fnArg, fetchVars, picksVars, discVars, analysisVars>>

SpecAnalyze == InitAnalyze /\ [][T_Analyze]_vars

\* C24: for every text the score lies in [-1, 1] and the confidence in
\* [0, 1]; for a text without tokens the result is Neutral with score 0 and
\* confidence 0.
C24_ScoreAndConfidenceBounded ==
    fnRet # <<>> =>
        LET r == fnRet[1]
        IN  /\ r.Score[2] > 0 /\ r.Confidence[2] > 0
            /\ ~Above(r.Score, 1, 1) /\ ~Below(r.Score, -1, 1)
            /\ 0 <= r.Confidence[1] /\ r.Confidence[1] <= r.Confidence[2]
            /\ tokenize(fnArg.in) = <<>> =>
                  /\ r.Sentiment = "NEUTRAL"
                  /\ r.Score[1] = 0 /\ r.Score[3] = 0 /\ r.Confidence[1] = 0

\* the text "EXTREMELY, BULLISH!" has been analyzed: score 1, confidence 1/3
C24_Witness ==
    /\ fnRet # <<>>
    /\ fnArg.in = "EXTREMELY, BULLISH!"
    /\ fnRet[1].Score = <<180, 180, 0>>
    /\ fnRet[1].Confidence = <<1, 3>>

\* C25: a dictionary word with a negator among the 3 words before it adds
\* its weight to the opposite score and is listed among the opposite
\* keywords, it is not left out; a negator further back changes nothing;
\* "not bullish" gives a bearish keyword.
C25_NegationFlips ==
    fnRet # <<>> =>
        LET r == fnRet[1]
            words == tokenize(fnArg.in)
            n == Len(words)
            flipped(i) == \E d \in 1..3 : i - d >= 1 /\ words[i - d] \in negators
            weight(i) == IF words[i] \in DOMAIN bullishWords THEN bullishWords[words[i]]
                         ELSE IF words[i] \in DOMAIN bearishWords THEN bearishWords[words[i]]
                         ELSE 0
            toBullish == {i \in 1..n : \/ words[i] \in DOMAIN bullishWords /\ ~flipped(i)
                                       \/ words[i] \in DOMAIN bearishWords /\ flipped(i)}
            toBearish == {i \in 1..n : \/ words[i] \in DOMAIN bearishWords /\ ~flipped(i)
                                       \/ words[i] \in DOMAIN bullishWords /\ flipped(i)}
        IN  /\ Range(r.BullishKeywords) = {words[i] : i \in toBullish}
            /\ Range(r.BearishKeywords) = {words[i] : i \in toBearish}
            /\ toBullish \cup toBearish # {} =>
                  /\ r.Score[2] >= 10 * weight(CHOOSE i \in toBullish \cup toBearish : TRUE)
                  /\ toBearish = {} => r.Score[1] = r.Score[2]
                  /\ toBullish = {} => r.Score[1] = -r.Score[2]
            /\ fnArg.in = "not bullish" =>
                  /\ r.BearishKeywords = <<"bullish">> /\ r.BullishKeywords = <<>>
                  /\ r.Sentiment = "BEARISH"

\* "not the the bullish" gives the bearish keyword bullish, and
\* "not the the the bullish" would give the bullish one
C25_Witness ==
    /\ fnRet # <<>>
    /\ fnArg.in = "not the the bullish"
    /\ fnRet[1].BearishKeywords = <<"bullish">>
    /\ fnRet[1].Score = <<-90, 90, 0>>
    /\ \A r \in Analyze("not the the the bullish") : r.BullishKeywords = <<"bullish">>

\* C26: the weight of a dictionary word is multiplied by one factor: the
\* multiplier of the first intensifier among the 2 words before it, or 1
\* without one; two intensifiers are not compounded and an intensifier 3
\* or more words back changes nothing. (The sum of the two scores is the
\* sum of these products.)
C26_OneIntensifier ==
    fnRet # <<>> =>
        LET r == fnRet[1]
            words == tokenize(fnArg.in)
            n == Len(words)
            isIntensifier(j) == j >= 1 /\ words[j] \in DOMAIN intensifiers
            factor(i) == IF isIntensifier(i - 2) THEN intensifiers[words[i - 2]]
                         ELSE IF isIntensifier(i - 1) THEN intensifiers[words[i - 1]]
                         ELSE 10
            weight(i) == IF words[i] \in DOMAIN bullishWords THEN bullishWords[words[i]]
                         ELSE IF words[i] \in DOMAIN bearishWords THEN bearishWords[words[i]]
                         ELSE 0
            term(i) == IF i <= n THEN weight(i) * factor(i) ELSE 0
            total == term(1) + term(2) + term(3) + term(4) + term(5) + term(6)
        IN  /\ n <= 6
            /\ r.Score[2] = IF total > 0 THEN total ELSE 1

\* "very extremely bullish": 0.9 times 1.5, the multiplier of very
C26_Witness ==
    /\ fnRet # <<>>
    /\ fnArg.in = "very extremely bullish"
    /\ fnRet[1].Score = <<135, 135, 0>>
    /\ \A r \in Analyze("very the the bullish") : r.Score = <<90, 90, 0>>

\* C27: the score is (bullishSum - bearishSum) / (bullishSum + bearishSum),
\* and 0 when both sums are 0; the label is Bullish iff the score is above
\* 0.1, Bearish iff it is below -0.1 and Neutral otherwise, so that a score
\* of exactly 0.1 or -0.1 is Neutral.
C27_ScoreAndLabel ==
    fnRet # <<>> =>
        LET r == fnRet[1]
            words == tokenize(fnArg.in)
            h == Hits(words, Len(words))
            exactly(num, den) == den * r.Score[1] = num * r.Score[2] /\ r.Score[3] = 0
        IN  /\ h.bullish + h.bearish = 0 => exactly(0, 1)
            /\ h.bullish + h.bearish > 0 =>
                  r.Score[1] * (h.bullish + h.bearish) = (h.bullish - h.bearish) * r.Score[2]
            /\ r.Sentiment = "BULLISH" <=> Above(r.Score, 1, 10)
            /\ r.Sentiment = "BEARISH" <=> Below(r.Score, -1, 10)
            /\ r.Sentiment \in {"BULLISH", "BEARISH", "NEUTRAL"}
            /\ (exactly(1, 10) \/ exactly(-1, 10)) => r.Sentiment = "NEUTRAL"

\* "up gain bearish": the sums 1.1 and 0.9 give the fraction 1 / 10, which
\* the rounding has raised, and the label is Bullish
C27_Witness ==
    /\ fnRet # <<>>
    /\ fnArg.in = "up gain bearish"
    /\ fnRet[1].Score = <<20, 200, 1>>
    /\ fnRet[1].Sentiment = "BULLISH"

(***************************************************************************)
(* Engine.generateRecommendation                                           *)
(***************************************************************************)
\* what an llm.AnalysisResponse may hold: the fields are taken from the
\* JSON of the provider's answer as they are
LLMActions == {"BUY", "SELL", "HOLD", "buy", ""}
LLMPrices == {0, 120}
LLMConfidences == {-5, 0, 85, 150}
LLMHorizons == {"", "short_term", "long_term"}
LLMRisks == {"", "high"}
LLMResponses ==
    [Action : LLMActions, TargetPrice : LLMPrices, StopLoss : LLMPrices,
     ConfidenceScore : LLMConfidences, TimeHorizon : LLMHorizons, RiskLevel : LLMRisks]

\* what a sentiment.Result may hold of label and confidence (a fraction)
KeywordResults ==
    { [Sentiment |-> "BULLISH", Confidence |-> <<1, 3>>],
      [Sentiment |-> "BEARISH", Confidence |-> <<1, 2>>],
      [Sentiment |-> "NEUTRAL", Confidence |-> <<0, 1>>] }

\* Fundamental.CurrentPrice
CurrentPrices == {0, 100}

\* a pointer: <<>> is nil
Optional(S) == {<<>>} \cup {<<x>> : x \in S}

\* Bearish taken as no signal
ActionOfBullishOnly(label) == IF label = "BULLISH" THEN "BUY" ELSE "HOLD"

\* switch result.KeywordAnalysis.Sentiment
ActionOf(label) ==
    IF label = "BULLISH" THEN "BUY"
    ELSE IF label = "BEARISH" THEN "SELL"
    ELSE "HOLD"

\* generateRecommendation; prices are whole numbers, ConfidenceScore is a
\* fraction, ExpiresIn the days until ExpiresAt
generateRecommendation(res) ==
    LET signal ==
            IF res.LLMAnalysis # <<>>
            THEN LET llm == res.LLMAnalysis[1]
                 IN  [Action |-> llm.Action, TargetPrice |-> llm.TargetPrice,
                      StopLoss |-> llm.StopLoss,
                      ConfidenceScore |-> <<llm.ConfidenceScore, 1>>,
                      TimeHorizon |-> llm.TimeHorizon, RiskLevel |-> llm.RiskLevel]
            ELSE IF res.KeywordAnalysis # <<>>
            THEN LET kw == res.KeywordAnalysis[1]
                 IN  [Action |-> ActionOf(kw.Sentiment), TargetPrice |-> 0, StopLoss |-> 0,
                      ConfidenceScore |-> <<kw.Confidence[1] * 100, kw.Confidence[2]>>,
                      TimeHorizon |-> "", RiskLevel |-> ""]
            ELSE [Action |-> "HOLD", TargetPrice |-> 0, StopLoss |-> 0,
                  ConfidenceScore |-> <<0, 1>>, TimeHorizon |-> "", RiskLevel |-> ""]
        priced == res.Fundamental # <<>>
        entry == IF priced THEN res.Fundamental[1] ELSE 0
        horizon == IF signal.TimeHorizon = "" THEN "medium_term" ELSE signal.TimeHorizon
    IN  [Action |-> signal.Action,
         EntryPrice |-> entry,
         TargetPrice |-> IF priced /\ signal.TargetPrice = 0
                         THEN (entry * 110) \div 100 ELSE signal.TargetPrice,
         StopLoss |-> IF priced /\ signal.StopLoss = 0
                      THEN (entry * 95) \div 100 ELSE signal.StopLoss,
         ConfidenceScore |-> signal.ConfidenceScore,
         TimeHorizon |-> horizon,
         RiskLevel |-> IF signal.RiskLevel = "" THEN "medium" ELSE signal.RiskLevel,
         ExpiresIn |-> IF horizon = "short_term" THEN 7
                       ELSE IF horizon = "long_term" THEN 90 ELSE 30]

InitRecommend ==
    /\ NoFetch /\ NoPicks /\ NoDiscover /\ NoAnalysis
    /\ \E llm \in Optional(LLMResponses), kw \in Optional(KeywordResults),
          f \in Optional(CurrentPrices) :
          fnArg = [fn |-> "generateRecommendation",
                   in |-> [LLMAnalysis |-> llm, KeywordAnalysis |-> kw, Fundamental |-> f]]
    /\ fnRet = <<>>

R_Generate ==
    /\ fnRet = <<>>
    /\ fnArg.fn = "generateRecommendation"
    /\ fnRet' = <<generateRecommendation(fnArg.in)>>
    /\ UNCHANGED <<fnArg, fetchVars, picksVars, discVars, analysisVars>>

SpecRecommend == InitRecommend /\ [][R_Generate]_vars

\* the part of C28 on the signals other than the provider's
FallbackSignals ==
    fnRet # <<>> =>
        LET res == fnArg.in
            rec == fnRet[1]
        IN  /\ (res.LLMAnalysis = <<>> /\ res.KeywordAnalysis # <<>>) =>
                  LET kw == res.KeywordAnalysis[1]
                  IN  /\ kw.Sentiment = "BULLISH" => rec.Action = "BUY"
                      /\ kw.Sentiment = "BEARISH" => rec.Action = "SELL"
                      /\ kw.Sentiment = "NEUTRAL" => rec.Action = "HOLD"
                      /\ rec.ConfidenceScore[1] * kw.Confidence[2]
                            = 100 * kw.Confidence[1] * rec.ConfidenceScore[2]
            /\ (res.LLMAnalysis = <<>> /\ res.KeywordAnalysis = <<>>) =>
                  rec.Action = "HOLD" /\ rec.ConfidenceScore[1] = 0

\* C28 (as claimed): with a result of the provider, its action, target,
\* stop-loss, confidence, time horizon and risk level are those of the
\* recommendation; else the sentiment label gives Buy, Sell or Hold with
\* the confidence times 100; with neither, Hold with confidence 0.
C28_SignalPriorityVerbatim ==
    /\ FallbackSignals
    /\ (fnRet # <<>> /\ fnArg.in.LLMAnalysis # <<>>) =>
          LET llm == fnArg.in.LLMAnalysis[1]
              rec == fnRet[1]
          IN  /\ rec.Action = llm.Action
              /\ rec.ConfidenceScore = <<llm.ConfidenceScore, 1>>
              /\ rec.TargetPrice = llm.TargetPrice
              /\ rec.StopLoss = llm.StopLoss
              /\ rec.TimeHorizon = llm.TimeHorizon
              /\ rec.RiskLevel = llm.RiskLevel

\* C28 (amended): as above, but a target or stop-loss of 0 is replaced by
\* 110% resp. 95% of the current price when there are fundamentals, and an
\* empty time horizon or risk level by medium_term resp. medium.
C28_SignalPriorityWithDefaults ==
    /\ FallbackSignals
    /\ (fnRet # <<>> /\ fnArg.in.LLMAnalysis # <<>>) =>
          LET llm == fnArg.in.LLMAnalysis[1]
              rec == fnRet[1]
              priced == fnArg.in.Fundamental # <<>>
              price == fnArg.in.Fundamental[1]
          IN  /\ rec.Action = llm.Action
              /\ rec.ConfidenceScore = <<llm.ConfidenceScore, 1>>
              /\ rec.TargetPrice = IF llm.TargetPrice = 0 /\ priced
                                   THEN (price * 110) \div 100 ELSE llm.TargetPrice
              /\ rec.StopLoss = IF llm.StopLoss = 0 /\ priced
                                THEN (price * 95) \div 100 ELSE llm.StopLoss
              /\ rec.TimeHorizon = IF llm.TimeHorizon = "" THEN "medium_term"
                                   ELSE llm.TimeHorizon
              /\ rec.RiskLevel = IF llm.RiskLevel = "" THEN "medium" ELSE llm.RiskLevel

\* the provider has returned SELL with the confidence 85, no target and no
\* risk level for a stock priced 100: the action and the confidence are
\* the provider's, the target 110 and the risk level medium
C28_Witness ==
    /\ fnRet # <<>>
    /\ fnArg.in.LLMAnalysis # <<>>
    /\ fnArg.in.Fundamental = <<100>>
    /\ fnArg.in.LLMAnalysis[1].Action = "SELL"
    /\ fnArg.in.LLMAnalysis[1].ConfidenceScore = 85
    /\ fnArg.in.LLMAnalysis[1].TargetPrice = 0
    /\ fnArg.in.LLMAnalysis[1].RiskLevel = ""
    /\ fnRet[1].Action = "SELL" /\ fnRet[1].ConfidenceScore = <<85, 1>>
    /\ fnRet[1].TargetPrice = 110 /\ fnRet[1].RiskLevel = "medium"

\* C29: every recommendation has an action among BUY, SELL and HOLD and a
\* confidence score within [0, 100], whatever the provider has returned.
C29_ActionAndConfidenceInRange ==
    fnRet # <<>> =>
        /\ fnRet[1].Action \in {"BUY", "SELL", "HOLD"}
        /\ 0 <= fnRet[1].ConfidenceScore[1]
        /\ fnRet[1].ConfidenceScore[1] <= 100 * fnRet[1].ConfidenceScore[2]

(***************************************************************************)
(* Engine.passesFilter                                                     *)
(***************************************************************************)
\* strings.ToLower
RECURSIVE ToLower(_)
ToLower(s) == IF s = "" THEN "" ELSE LowerOf(SubSeq(s, 1, 1)) \o ToLower(SubSeq(s, 2, Len(s)))

\* containsString
containsString(slice, s) == \E k \in 1..Len(slice) : slice[k] = s

\* containsStringInsensitive
containsStringInsensitive(slice, s) ==
    \E k \in 1..Len(slice) :
        \/ ToLower(slice[k]) = ToLower(s)
        \/ Contains(ToLower(s), ToLower(slice[k]))

\* a value equal to the lower bound rejected too
AtOrBelowMin(value, min) == min > 0 /\ value <= min

\* filter.MinX > 0 && value < filter.MinX
BelowMin(value, min) == min > 0 /\ value < min

\* filter.MaxX > 0 && value > filter.MaxX
AboveMax(value, max) == max > 0 /\ value > max

\* the bounds on fundamentals set in filter
FundamentalBounds(filter) ==
    {filter.MinMarketCap, filter.MaxMarketCap, filter.MinPE, filter.MaxPE,
     filter.MinROE, filter.MaxDebtToEquity} \ {0}

\* a pick without fundamentals rejected by a filter that bounds them
passesFilterAbsentFails(pick, fund, filter) ==
    /\ ~BelowMin(pick.EntryPrice, filter.MinPrice)
    /\ ~AboveMax(pick.EntryPrice, filter.MaxPrice)
    /\ ~BelowMin(pick.ConfidenceScore, filter.MinConfidence)
    /\ Len(filter.RiskLevels) > 0 => containsString(filter.RiskLevels, pick.RiskLevel)
    /\ Len(filter.TimeHorizons) > 0 => containsString(filter.TimeHorizons, pick.TimeHorizon)
    /\ (Len(filter.Sectors) > 0 /\ pick.Sector # "") =>
          containsStringInsensitive(filter.Sectors, pick.Sector)
    /\ IF fund = <<>> THEN FundamentalBounds(filter) = {}
       ELSE /\ ~BelowMin(fund[1].MarketCap, filter.MinMarketCap)
            /\ ~AboveMax(fund[1].MarketCap, filter.MaxMarketCap)
            /\ ~(fund[1].StockPE > 0 /\ BelowMin(fund[1].StockPE, filter.MinPE))
            /\ ~(fund[1].StockPE > 0 /\ AboveMax(fund[1].StockPE, filter.MaxPE))
            /\ ~BelowMin(fund[1].ROE, filter.MinROE)
            /\ ~AboveMax(fund[1].DebtToEquity, filter.MaxDebtToEquity)

\* passesFilter; ConfidenceScore and MinConfidence are in tenths,
\* fund is the pointer fundamental, <<>> for nil
passesFilter(pick, fund, filter) ==
    IF BelowMin(pick.EntryPrice, filter.MinPrice) THEN FALSE
    ELSE IF AboveMax(pick.EntryPrice, filter.MaxPrice) THEN FALSE
    ELSE IF BelowMin(pick.ConfidenceScore, filter.MinConfidence) THEN FALSE
    ELSE IF Len(filter.RiskLevels) > 0 /\ ~containsString(filter.RiskLevels, pick.RiskLevel)
         THEN FALSE
    ELSE IF Len(filter.TimeHorizons) > 0
              /\ ~containsString(filter.TimeHorizons, pick.TimeHorizon)
         THEN FALSE
    ELSE IF Len(filter.Sectors) > 0 /\ pick.Sector # ""
              /\ ~containsStringInsensitive(filter.Sectors, pick.Sector)
         THEN FALSE
    ELSE IF fund # <<>>
         THEN LET fd == fund[1]
              IN  IF BelowMin(fd.MarketCap, filter.MinMarketCap) THEN FALSE
                  ELSE IF AboveMax(fd.MarketCap, filter.MaxMarketCap) THEN FALSE
                  ELSE IF fd.StockPE > 0
                            /\ BelowMin(fd.StockPE, filter.MinPE) THEN FALSE
                  ELSE IF fd.StockPE > 0
                            /\ AboveMax(fd.StockPE, filter.MaxPE) THEN FALSE
                  ELSE IF BelowMin(fd.ROE, filter.MinROE) THEN FALSE
                  ELSE IF AboveMax(fd.DebtToEquity, filter.MaxDebtToEquity)
                       THEN FALSE
                  ELSE TRUE
         ELSE TRUE

\* the bounds of a DailyPicksFilter
BoundNames ==
    {"MinPrice", "MaxPrice", "MinMarketCap", "MaxMarketCap", "MinPE", "MaxPE",
     "MinConfidence", "RiskLevels", "TimeHorizons", "Sectors", "MinROE", "MaxDebtToEquity"}
\* at most so many bounds are set in a filter, or all of them
MaxBounds == 2
\* the filter with the bounds B set
FilterWith(B) ==
    [MinPrice |-> IF "MinPrice" \in B THEN 100 ELSE 0,
     MaxPrice |-> IF "MaxPrice" \in B THEN 500 ELSE 0,
     MinMarketCap |-> IF "MinMarketCap" \in B THEN 5000 ELSE 0,
     MaxMarketCap |-> IF "MaxMarketCap" \in B THEN 20000 ELSE 0,
     MinPE |-> IF "MinPE" \in B THEN 10 ELSE 0,
     MaxPE |-> IF "MaxPE" \in B THEN 40 ELSE 0,
     MinConfidence |-> IF "MinConfidence" \in B THEN 800 ELSE 0,
     RiskLevels |-> IF "RiskLevels" \in B THEN <<"low", "medium">> ELSE <<>>,
     TimeHorizons |-> IF "TimeHorizons" \in B THEN <<"short_term">> ELSE <<>>,
     Sectors |-> IF "Sectors" \in B THEN <<"Banking", "IT">> ELSE <<>>,
     MinROE |-> IF "MinROE" \in B THEN 15 ELSE 0,
     MaxDebtToEquity |-> IF "MaxDebtToEquity" \in B THEN 1 ELSE 0]
Filters ==
    {FilterWith(B) : B \in {X \in SUBSET BoundNames : Cardinality(X) <= MaxBounds}}
        \cup {FilterWith(BoundNames)}
FilterPicks ==
    [EntryPrice : {50, 100, 600}, ConfidenceScore : {799, 800},
     RiskLevel : {"medium", "high"}, TimeHorizon : {"short_term", "medium_term"},
     Sector : {"", "it services", "Bank", "Pharma"}]
FilterFundamentals ==
    [MarketCap : {1000, 30000}, StockPE : {0, 5, 50}, ROE : {10, 20}, DebtToEquity : {0, 2}]

InitFilter ==
    /\ NoFetch /\ NoPicks /\ NoDiscover /\ NoAnalysis
    /\ \E pick \in FilterPicks, fund \in Optional(FilterFundamentals), filter \in Filters :
          fnArg = [fn |-> "passesFilter",
                   in |-> [pick |-> pick, fundamental |-> fund, filter |-> filter]]
    /\ fnRet = <<>>

F_PassesFilter ==
    /\ fnRet = <<>>
    /\ fnArg.fn = "passesFilter"
    /\ fnRet' = <<passesFilter(fnArg.in.pick, fnArg.in.fundamental, fnArg.in.filter)>>
    /\ UNCHANGED <<fnArg, fetchVars, picksVars, discVars, analysisVars>>

SpecFilter == InitFilter /\ [][F_PassesFilter]_vars

\* the two examples of C30
FilterExamples ==
    LET filter == fnArg.in.filter
    IN  fnRet # <<>> =>
          /\ filter = FilterWith({}) => fnRet[1]
          /\ filter = FilterWith({"MinConfidence"}) =>
                fnRet[1] = (fnArg.in.pick.ConfidenceScore >= 800)

\* pick and fundamentals are within the bounds of the filter that are set;
\* the bounds in strict are those whose value may be missing: they reject a
\* missing value when strict holds and let it pass when not
WithinBounds(pick, fund, filter, strict) ==
    /\ filter.MinPrice > 0 => pick.EntryPrice >= filter.MinPrice
    /\ filter.MaxPrice > 0 => pick.EntryPrice <= filter.MaxPrice
    /\ filter.MinConfidence > 0 => pick.ConfidenceScore >= filter.MinConfidence
    /\ filter.RiskLevels # <<>> => pick.RiskLevel \in Range(filter.RiskLevels)
    /\ filter.TimeHorizons # <<>> => pick.TimeHorizon \in Range(filter.TimeHorizons)
    /\ filter.Sectors # <<>> =>
          IF pick.Sector = "" THEN ~strict
          ELSE \E sec \in Range(filter.Sectors) :
                  Contains(ToLower(pick.Sector), ToLower(sec))
    /\ fund # <<>> =>
          /\ filter.MinMarketCap > 0 => fund[1].MarketCap >= filter.MinMarketCap
          /\ filter.MaxMarketCap > 0 => fund[1].MarketCap <= filter.MaxMarketCap
          /\ filter.MinPE > 0 =>
                IF fund[1].StockPE <= 0 THEN ~strict ELSE fund[1].StockPE >= filter.MinPE
          /\ filter.MaxPE > 0 =>
                IF fund[1].StockPE <= 0 THEN ~strict ELSE fund[1].StockPE <= filter.MaxPE
          /\ filter.MinROE > 0 => fund[1].ROE >= filter.MinROE
          /\ filter.MaxDebtToEquity > 0 => fund[1].DebtToEquity <= filter.MaxDebtToEquity

\* C30 (as claimed): passesFilter returns true exactly when the pick is
\* within every bound set in the filter (the bounds on fundamentals apply
\* when there are fundamentals); no bounds accept every pick, and
\* minConfidence = 80 rejects 79.9 and accepts 80.
C30_ExactlyAllBounds ==
    /\ FilterExamples
    /\ fnRet # <<>> =>
          fnRet[1] = WithinBounds(fnArg.in.pick, fnArg.in.fundamental, fnArg.in.filter, TRUE)

\* C30 (amended): as above, but a pick without sector passes the bound on
\* sectors and fundamentals without a positive P/E pass the bounds on P/E.
C30_ExactlyApplicableBounds ==
    /\ FilterExamples
    /\ fnRet # <<>> =>
          fnRet[1] = WithinBounds(fnArg.in.pick, fnArg.in.fundamental, fnArg.in.filter, FALSE)

\* the filter with minConfidence = 80 alone has accepted a pick with the
\* confidence 80
C30_Witness ==
    /\ fnRet = <<TRUE>>
    /\ fnArg.in.filter = FilterWith({"MinConfidence"})
    /\ fnArg.in.pick.ConfidenceScore = 800

\* C31: the sector bound matches without regard to case and by containment
\* in either direction: a pick with a sector passes the bound exactly when
\* its sector equals, contains or is contained in a sector of the filter.
C31_SectorEitherDirection ==
    LET pick == fnArg.in.pick
        filter == fnArg.in.filter
    IN  (fnRet # <<>> /\ filter = FilterWith({"Sectors"}) /\ pick.Sector # "") =>
          fnRet[1] = \E sec \in Range(filter.Sectors) :
                        \/ ToLower(sec) = ToLower(pick.Sector)
                        \/ Contains(ToLower(pick.Sector), ToLower(sec))
                        \/ Contains(ToLower(sec), ToLower(pick.Sector))

(***************************************************************************)
(* parseNumber                                                             *)
(***************************************************************************)
\* strings.ReplaceAll(s, old, "")
RECURSIVE RemoveAll(_, _)
RemoveAll(s, old) ==
    IF Len(s) < Len(old) THEN s
    ELSE IF SubSeq(s, 1, Len(old)) = old
         THEN RemoveAll(SubSeq(s, Len(old) + 1, Len(s)), old)
    ELSE Char(s, 1) \o RemoveAll(SubSeq(s, 2, Len(s)), old)

\* strings.HasSuffix
HasSuffix(s, suffix) ==
    Len(s) >= Len(suffix) /\ SubSeq(s, Len(s) - Len(suffix) + 1, Len(s)) = suffix

IsDigit(c) == \E k \in 1..Len(Digits) : Char(Digits, k) = c
DigitValue(c) == (CHOOSE k \in 1..Len(Digits) : Char(Digits, k) = c) - 1

\* the length of the longest run of digits of s that starts at i
RECURSIVE DigitRun(_, _)
DigitRun(s, i) ==
    IF i <= Len(s) /\ IsDigit(Char(s, i)) THEN 1 + DigitRun(s, i + 1) ELSE 0

\* the length of the match of [0-9]*\.?[0-9]+ at i, 0 when there is none
UnsignedMatch(s, i) ==
    LET whole == DigitRun(s, i)
        fraction == IF i + whole <= Len(s) /\ Char(s, i + whole) = "."
                    THEN DigitRun(s, i + whole + 1) ELSE 0
    IN  IF fraction > 0 THEN whole + 1 + fraction ELSE whole

\* the length of the match of [-+]?[0-9]*\.?[0-9]+ at i, 0 when there is none
MatchAt(s, i) ==
    IF Char(s, i) \in {"-", "+"} /\ UnsignedMatch(s, i + 1) > 0
    THEN 1 + UnsignedMatch(s, i + 1)
    ELSE UnsignedMatch(s, i)

\* re.FindString: the leftmost match, "" when there is none
FindString(s) ==
    IF \E i \in 1..Len(s) : MatchAt(s, i) > 0
    THEN LET i == CHOOSE k \in 1..Len(s) :
                      MatchAt(s, k) > 0 /\ \A j \in 1..(k - 1) : MatchAt(s, j) = 0
         IN  SubSeq(s, i, i + MatchAt(s, i) - 1)
    ELSE ""

\* the digits of s read as a whole number, a point passed over
RECURSIVE DigitsValue(_, _)
DigitsValue(s, acc) ==
    IF s = "" THEN acc
    ELSE IF Char(s, 1) = "." THEN DigitsValue(SubSeq(s, 2, Len(s)), acc)
    ELSE DigitsValue(SubSeq(s, 2, Len(s)), acc * 10 + DigitValue(Char(s, 1)))

\* the number n * 10^e with the shortest n: numbers are kept as <<n, e>>
\* since the values with a multiplier exceed 32 bits
RECURSIVE Decimal(_, _)
Decimal(n, e) ==
    IF n = 0 THEN <<0, 0>>
    ELSE IF n % 10 = 0 THEN Decimal(n \div 10, e + 1)
    ELSE <<n, e>>

\* strconv.ParseFloat of a match of the expression
ParseFloat(match) ==
    LET negative == Char(match, 1) = "-"
        unsigned == IF Char(match, 1) \in {"-", "+"} THEN SubSeq(match, 2, Len(match))
                    ELSE match
        point == IF \E k \in 1..Len(unsigned) : Char(unsigned, k) = "."
                 THEN CHOOSE k \in 1..Len(unsigned) : Char(unsigned, k) = "."
                 ELSE Len(unsigned)
        n == DigitsValue(unsigned, 0)
    IN  Decimal(IF negative THEN 0 - n ELSE n, point - Len(unsigned))

\* parseNumber: the value n * 10^e as <<n, e>>; multiplier is the power of
\* ten of the unit
parseNumber(text) ==
    LET stripped == TrimSpace(RemoveAll(RemoveAll(RemoveAll(RemoveAll(RemoveAll(
                        text, "₹"), ","), "%"), "Cr."), "Cr"))
        multiplier == IF HasSuffix(stripped, "K") THEN 3
                      ELSE IF HasSuffix(stripped, "L") THEN 5
                      ELSE IF HasSuffix(stripped, "M") THEN 6
                      ELSE IF HasSuffix(stripped, "B") THEN 9
                      ELSE 0
        cut == IF HasSuffix(stripped, "K") THEN TrimSuffix(stripped, "K")
               ELSE IF HasSuffix(stripped, "L") THEN TrimSuffix(stripped, "L")
               ELSE IF HasSuffix(stripped, "M") THEN TrimSuffix(stripped, "M")
               ELSE IF HasSuffix(stripped, "B") THEN TrimSuffix(stripped, "B")
               ELSE stripped
        match == FindString(cut)
    IN  IF match = "" THEN <<0, 0>>
        ELSE Decimal(ParseFloat(match)[1], ParseFloat(match)[2] + multiplier)

\* the texts parsed: a currency sign or a sign, a number, a space, a unit
NumberPrefixes == {"", "₹", "-", "Rs. "}
NumberTexts == {"1,234.5", "45", ".5", "12.", "", "N/A", "-"}
NumberSpaces == {"", " "}
NumberUnits == {"", "K", "L", "Cr", "Cr.", "M", "B", "%"}
NumberInputs ==
    [prefix : NumberPrefixes, number : NumberTexts, space : NumberSpaces, unit : NumberUnits]
TextOf(in) == in.prefix \o in.number \o in.space \o in.unit

InitParse ==
    /\ NoFetch /\ NoPicks /\ NoDiscover /\ NoAnalysis
    /\ \E in \in NumberInputs : fnArg = [fn |-> "parseNumber", in |-> in]
    /\ fnRet = <<>>

P_ParseNumber ==
    /\ fnRet = <<>>
    /\ fnArg.fn = "parseNumber"
    /\ fnRet' = <<parseNumber(TextOf(fnArg.in))>>
    /\ UNCHANGED <<fnArg, fetchVars, picksVars, discVars, analysisVars>>

SpecParse == InitParse /\ [][P_ParseNumber]_vars

\* the power of ten the claim gives to a unit
ClaimedMultiplier(unit) ==
    IF unit = "K" THEN 3
    ELSE IF unit = "L" THEN 5
    ELSE IF unit \in {"Cr", "Cr."} THEN 7
    ELSE IF unit = "M" THEN 6
    ELSE IF unit = "B" THEN 9
    ELSE 0
\* the value of a well-formed number text, in tenths
ClaimedTenths(number) ==
    IF number = "1,234.5" THEN 12345
    ELSE IF number = "45" THEN 450
    ELSE IF number = ".5" THEN 5
    ELSE 120

\* C32: parseNumber strips currency signs, thousands separators and percent
\* signs, applies the multipliers K = 10^3, L = 10^5, Cr = 10^7, M = 10^6
\* and B = 10^9, and gives 0 for a missing or malformed text:
\* "₹1,234.5 Cr" gives 12345000000, "N/A" gives 0 and "45%" gives 45.
C32_ParseNumber ==
    fnRet # <<>> =>
        LET in == fnArg.in
            value == fnRet[1]
        IN  /\ (in.prefix \in {"", "₹"} /\ in.number \in {"1,234.5", "45", ".5", "12."}) =>
                  value = Decimal(ClaimedTenths(in.number), ClaimedMultiplier(in.unit) - 1)
            /\ (in.prefix \in {"", "₹"} /\ in.number \in {"", "N/A"}) => value = <<0, 0>>
            /\ TextOf(in) = "₹1,234.5 Cr" => value = <<12345, 6>>
            /\ TextOf(in) = "N/A" => value = <<0, 0>>
            /\ TextOf(in) = "45%" => value = <<45, 0>>

(***************************************************************************)
(* More properties of the rate-limited fetcher                             *)
(***************************************************************************)

\* C33: the floor of a Scraper built by NewScraper is at least 3 seconds
\* whatever delay is configured (the default of 2s included), and no
\* operation changes the floor afterwards.
C33_FloorAtLeastThree ==
    /\ [](scrapeDelay >= 3)
    /\ [][scrapeDelay' = scrapeDelay]_vars

\* a Scraper configured with the default of 2s has the floor 3 and has
\* served a call
C33_Witness ==
    /\ scrapeDelay = 3
    /\ \E c \in Callers : pc[c] = "done" /\ reqCount[c] >= 1

\* C34: the floor is measured from the end of the previous request: a call
\* issues its first request no earlier than the floor after the latest
\* response the instance has received (sinceDone saturates at the floor).
C34_FloorFromEndOfRequest ==
    [][\A c \in Callers :
         (reqCount'[c] = reqCount[c] + 1 /\ attempt[c] = 0)
            => sinceDone >= scrapeDelay]_vars

\* C35: the backoff wait after the k-th rate-limited attempt lasts k x 5
\* seconds and is followed by attempt k + 1: a call waits in backoff only
\* between attempts, so a call with 3 rate-limited attempts has waited
\* 5s + 10s when it fails.
C35_BackoffOnlyBetweenAttempts ==
    [][\A c \in Callers :
         (pc[c] = "inflight" /\ pc'[c] = "backoff")
            => /\ timer'[c] = reqCount[c] * 5
               /\ reqCount[c] < 3]_vars

\* filter without its bounds on fundamentals
WithoutFundamentalBounds(filter) ==
    [filter EXCEPT !.MinMarketCap = 0, !.MaxMarketCap = 0, !.MinPE = 0, !.MaxPE = 0,
                   !.MinROE = 0, !.MaxDebtToEquity = 0]

\* C36: for a pick without fundamentals the bounds on market cap, P/E, ROE
\* and debt/equity are passed over: the result is the one of the filter
\* without these bounds, so two filters that differ in them only give the
\* same result.
C36_AbsentFundamentalsSkipped ==
    (fnRet # <<>> /\ fnArg.in.fundamental = <<>>) =>
        fnRet[1] = WithinBounds(fnArg.in.pick, <<>>,
                                WithoutFundamentalBounds(fnArg.in.filter), FALSE)

\* a pick without fundamentals has passed a filter that bounds the market
\* cap and the ROE
C36_Witness ==
    /\ fnRet = <<TRUE>>
    /\ fnArg.in.fundamental = <<>>
    /\ fnArg.in.filter = FilterWith({"MinMarketCap", "MinROE"})

(***************************************************************************)
(* Termination of the batch run                                            *)
(***************************************************************************)
\* the goroutines of the batch run scheduled fairly and every AnalyzeStock
\* returning; nothing is assumed of the cancellation
SpecBatchFair ==
    /\ Init
    /\ [][Next]_vars
    /\ WF_vars(B_Spawn) /\ WF_vars(B_Close) /\ WF_vars(B_Collect) /\ WF_bpc(B_Finish)
    /\ WF_vars(\E i \in Cands : W_Acquire(i))
    /\ WF_vars(\E i \in Cands : W_CheckStart(i))
    /\ WF_vars(\E i \in Cands : W_Finish(i))

\* the workers that have not returned yet
WorkersLeft == {i \in Cands : wpc[i] \in {"acquire", "holding", "analyzing"}}

\* C37: a batch run terminates, with or without cancellation: the send of
\* a worker finds room in the results channel, the semaphore holds the
\* tokens of the workers between acquire and return only, the results
\* channel is closed once and only after every worker has returned, the
\* collector has counted every result sent, and a run that has begun
\* returns.
C37_BatchTerminates ==
    /\ [](/\ \A i \in Cands : wpc[i] = "analyzing" => Len(results) < resultsCap
          /\ sem = Cardinality({i \in Cands : wpc[i] \in {"holding", "analyzing"}})
          /\ resultsClosed <= 1
          /\ resultsClosed = 1 => (spawned = bCand /\ WorkersLeft = {})
          /\ (bpc = "done" /\ bCand > 0) =>
                (resultsClosed = 1 /\ results = <<>> /\ totalAnalyzed = Len(bStarted)))
    /\ (bpc \in {"spawn", "collect"}) ~> (bpc = "done")

\* a batch run cancelled after its first analysis has returned: one
\* result was sent and counted, the other workers returned without one
C37_Witness ==
    /\ bpc = "done" /\ bCancelled
    /\ bCand = 3 /\ Len(bStarted) = 1 /\ totalAnalyzed = 1
    /\ WorkersLeft = {} /\ sem = 0

\* C38: a call holds the mutex only between a Lock and the Unlock that
\* follows it without a wait: never in the floor delay, in a backoff,
\* during the request or after its return; the holder can always take its
\* next step, so the mutex is free again without any wait and no caller
\* is blocked by a waiting, cancelled or failed call.
C38_MutexNeverHeldWhileWaiting ==
    /\ \A c \in Callers : (mu = c) <=> (pc[c] \in {"locked", "stamp"})
    /\ mu # NoHolder => ENABLED (CheckElapsed(mu) \/ Stamp(mu))
    /\ (mu = NoHolder /\ \E c \in Callers : pc[c] \in {"start", "relock"}) =>
          ENABLED (\E c \in Callers : Lock(c) \/ Relock(c))

\* a cancelled call is parked in its backoff while another call holds the
\* mutex
C38_Witness ==
    \E c, d \in Callers :
        /\ c # d
        /\ pc[c] = "backoff" /\ cancelled[c]
        /\ mu = d

(***************************************************************************)
(* The length of the discovered list                                       *)
(***************************************************************************)
\* C39: DiscoverTrendingStocks returns exactly 30 candidates with pairwise
\* distinct normalized symbols in every run, also when every network
\* source fails, since the two built-in lists always contribute; so batch
\* mode never finds the list empty.
C39_AlwaysThirtyCandidates ==
    dpc = "done" =>
        LET returnable == dResult.certain \cup dResult.tied
        IN  /\ dResult.err = "nil"
            /\ dResult.len = 30
            /\ dResult.certain \cap dResult.tied = {}
            /\ Cardinality(dResult.certain) <= 30
            /\ Cardinality(returnable) >= 30
            /\ Cardinality({CleanSymbol(x) : x \in returnable}) = Cardinality(returnable)

\* every upstream is down and the call has returned 30 candidates
C39_Witness ==
    /\ dpc = "done"
    /\ \A s \in SourceNames \ {"TradingView"} : ~up[s]
    /\ dResult.len = 30

(***************************************************************************)
(* The market sentiment of the two modes                                   *)
(***************************************************************************)
\* the label that the average confidence alone gives
ByAverage(picks) ==
    IF Len(picks) = 0 THEN "NEUTRAL"
    ELSE IF SumConf(picks) > 60 * Len(picks) THEN "BULLISH"
    ELSE IF SumConf(picks) < 40 * Len(picks) THEN "BEARISH"
    ELSE "NEUTRAL"

\* C40: in both modes the picks handed to determineMarketSentiment are BUY
\* picks only, so the market sentiment reported (by the Complete event, by
\* the result of a batch run that has analyzed a list) follows the average
\* confidence alone: BULLISH iff above 60, BEARISH iff below 40, else
\* NEUTRAL, and NEUTRAL without picks.
C40_SentimentByAverageAlone ==
    /\ \A k \in 1..Len(chanLog) :
          chanLog[k].type = "complete" =>
              /\ \A j \in 1..Len(sPicks) : sPicks[j].action = "BUY"
              /\ chanLog[k].info = ByAverage(sPicks)
    /\ (bpc = "done" /\ nDisc > 0) =>
          /\ \A j \in 1..Len(analyzedStocks) : analyzedStocks[j].action = "BUY"
          /\ bResult.sentiment = ByAverage(analyzedStocks)

\* two BUY picks of confidence 35: both modes report BEARISH
C40_Witness ==
    /\ bpc = "done" /\ nDisc = 2
    /\ Len(bResult.picks) = 2 /\ bResult.sentiment = "BEARISH"
    /\ \E k \in 1..Len(chanLog) :
          chanLog[k].type = "complete" /\ chanLog[k].info = "BEARISH"

====
